---- MODULE Spec2Model ----
(***************************************************************************)
(* A model of the adaptive-card component: the state store                 *)
(* (src/src/state_store.rs), the interaction handler                       *)
(* (src/src/interaction.rs), the invocation entry point (src/src/lib.rs)   *)
(* and the renderer (src/src/render.rs): the Asset and Catalog sources,    *)
(* the two resolution passes and the validator.                            *)
(*                                                                         *)
(* Strings are sequences of tokens: a token is a chunk of characters that  *)
(* the code never looks inside (an identifier, a word), or one of the      *)
(* delimiters the code searches for ("." in a state path, "@{", "${", "}"  *)
(* in a card string, " " for whitespace).  "ui.visibility.a" is            *)
(* <<"ui", ".", "visibility", ".", "a">>.                                  *)
(***************************************************************************)
EXTENDS Integers, Sequences, FiniteSets, TLC

VARIABLES
    store,      \* STATE_STORE: the State Backend, key -> bytes
    last,       \* the last finished invocation: its input, result and backend operations
    invocations,\* number of invocations handled so far
    doc,        \* a state document under mutation by the path operators
    op,         \* the last path operator applied to doc
    applied,    \* number of path operators applied so far
    proc,       \* per concurrent caller: position and locals of its invocation
    cstore,     \* the State Backend shared by the concurrent callers
    writes,     \* the backend writes of the concurrent callers, in the order they landed
    scope,      \* a BindingContext the binding pass resolves against
    binding,    \* the last call into the binding pass: its input and what it returned
    subject,    \* a card handed to validate_card
    report,     \* what validate_card returned for subject
    files,      \* the asset files, registries and host resolver a card is loaded from
    fetched     \* the last resolve_card of an Asset or Catalog source and what it did

vars == <<store, last, invocations, doc, op, applied, proc, cstore, writes, scope, binding,
          subject, report, files, fetched>>

----------------------------------------------------------------------------
(* serde_json::Value *)

ValueNull == [t |-> "null"]
ValueBool(b) == [t |-> "bool", b |-> b]
ValueNumber(n) == [t |-> "num", n |-> n]
ValueString(s) == [t |-> "str", s |-> s]
ValueArray(a) == [t |-> "arr", a |-> a]
ValueObject(m) == [t |-> "obj", m |-> m]

is_null(v) == v.t = "null"
is_object(v) == v.t = "obj"

(* serde_json::Map *)
MapNew == [k \in {} |-> ValueNull]
contains_key(m, k) == k \in DOMAIN m
map_insert(m, k, v) == [q \in (DOMAIN m) \cup {k} |-> IF q = k THEN v ELSE m[q]]
map_remove(m, k) == [q \in (DOMAIN m) \ {k} |-> m[q]]

(* Option<T> *)
None == [some |-> FALSE]
Some(v) == [some |-> TRUE, v |-> v]

----------------------------------------------------------------------------
(* state_store.rs: the path operators *)

\* str::split('.'): the segments between the "." tokens; never empty, the
\* empty string gives one empty segment.
RECURSIVE split(_)
split(path) ==
    IF \A i \in 1..Len(path) : path[i] # "."
    THEN <<path>>
    ELSE LET i == CHOOSE i \in 1..Len(path) :
                      path[i] = "." /\ \A j \in 1..(i - 1) : path[j] # "."
         IN  <<SubSeq(path, 1, i - 1)>> \o split(SubSeq(path, i + 1, Len(path)))

ensure_object_loose(value) == value

ensure_object(value) == IF is_object(value) THEN value ELSE ValueObject(MapNew)

\* The loop of set_path over parts[..len-1] and the final insert, as a
\* recursion on the remaining parts: `current` is the node the loop stands on.
RECURSIVE set_parts(_, _, _)
set_parts(current, parts, value) ==
    LET map == ensure_object(current).m
        part == Head(parts)
    IN  IF ~is_object(ensure_object(current))
        THEN current
        ELSE IF Len(parts) = 1
        THEN ValueObject(map_insert(map, part, value))
        ELSE LET next == IF contains_key(map, part) THEN map[part]
                         ELSE ValueObject(MapNew)
             IN  ValueObject(map_insert(map, part, set_parts(next, Tail(parts), value)))

set_path(state, path, value) ==
    LET parts == split(path)
    IN  IF parts = <<>> THEN value ELSE set_parts(state, parts, value)

RECURSIVE merge_parts(_, _, _)
merge_parts(current, parts, value) ==
    LET map == ensure_object(current).m
        part == Head(parts)
    IN  IF ~is_object(ensure_object(current))
        THEN current
        ELSE IF Len(parts) = 1
        THEN IF contains_key(map, part) /\ is_object(map[part]) /\ is_object(value)
             THEN LET existing == map[part].m
                      merged == [k \in (DOMAIN existing) \cup (DOMAIN value.m) |->
                                    IF k \in DOMAIN value.m THEN value.m[k]
                                    ELSE existing[k]]
                  IN  ValueObject(map_insert(map, part, ValueObject(merged)))
             ELSE ValueObject(map_insert(map, part, value))
        ELSE LET next == IF contains_key(map, part) THEN map[part]
                         ELSE ValueObject(MapNew)
             IN  ValueObject(map_insert(map, part, merge_parts(next, Tail(parts), value)))

\* merge_path that replaces what the final segment holds.
merge_path_replacing(state, path, value) == set_path(state, path, value)

merge_path(state, path, value) ==
    LET parts == split(path)
    IN  IF parts = <<>> THEN value ELSE merge_parts(state, parts, value)

RECURSIVE delete_parts(_, _)
delete_parts(current, parts) ==
    LET part == Head(parts)
    IN  IF ~is_object(current)
        THEN current
        ELSE IF Len(parts) = 1
        THEN ValueObject(map_remove(current.m, part))
        ELSE IF ~contains_key(current.m, part)
        THEN current
        ELSE ValueObject(map_insert(current.m, part,
                                    delete_parts(current.m[part], Tail(parts))))

\* delete_path that coerces the segments on the way down as set_path does.
delete_path_coercing(state, path) ==
    delete_parts(set_path(state, path, ValueNull), split(path))

delete_path(state, path) ==
    LET parts == split(path)
    IN  IF parts = <<>> THEN ValueNull ELSE delete_parts(state, parts)

(* model.rs: StateUpdateOp *)
Set(path, value) == [kind |-> "Set", path |-> path, value |-> value]
Merge(path, value) == [kind |-> "Merge", path |-> path, value |-> value]
Delete(path) == [kind |-> "Delete", path |-> path]

apply_update(state, update) ==
    CASE update.kind = "Set" -> set_path(state, update.path, update.value)
      [] update.kind = "Merge" -> merge_path(state, update.path, update.value)
      [] update.kind = "Delete" -> delete_path(state, update.path)

RECURSIVE apply_updates(_, _)
apply_updates(state, updates) ==
    IF updates = <<>> THEN state
    ELSE apply_updates(apply_update(state, Head(updates)), Tail(updates))

----------------------------------------------------------------------------
(* render.rs: lookup_in, the segment-by-segment resolution of a path *)

Numerals == <<"0", "1", "2", "3", "4", "5", "6", "7", "8", "9">>
is_numeral(tok) == \E i \in 1..Len(Numerals) : Numerals[i] = tok
numeral_value(tok) == (CHOOSE i \in 1..Len(Numerals) : Numerals[i] = tok) - 1

\* str::parse::<usize>() of a segment: Some(n) for a non-empty run of digits.
RECURSIVE parse_digits(_, _)
parse_digits(part, acc) ==
    IF part = <<>> THEN acc
    ELSE parse_digits(Tail(part), acc * 10 + numeral_value(Head(part)))

parse_usize(part) ==
    IF part # <<>> /\ \A i \in 1..Len(part) : is_numeral(part[i])
    THEN Some(parse_digits(part, 0))
    ELSE None

RECURSIVE lookup_in(_, _)
lookup_in(value, parts) ==
    IF parts = <<>> THEN Some(value)
    ELSE CASE value.t = "obj" ->
                IF contains_key(value.m, Head(parts))
                THEN lookup_in(value.m[Head(parts)], Tail(parts))
                ELSE None
           [] value.t = "arr" ->
                LET idx == parse_usize(Head(parts))
                IN  IF idx.some /\ idx.v < Len(value.a)
                    THEN lookup_in(value.a[idx.v + 1], Tail(parts))
                    ELSE None
           [] OTHER -> None

----------------------------------------------------------------------------
(* Documents, paths and values for the path operators *)

MaxOps == 2

Obj1(k, v) == ValueObject(map_insert(MapNew, k, v))
Obj2(k1, v1, k2, v2) == ValueObject(map_insert(map_insert(MapNew, k1, v1), k2, v2))

OpValues ==
    { ValueNull, ValueNumber(1), ValueString(<<"x">>), ValueObject(MapNew),
      Obj1(<<"a">>, ValueNumber(2)), Obj1(<<"b">>, ValueObject(MapNew)),
      Obj2(<<"a">>, ValueNumber(1), <<"b">>, Obj1(<<"c">>, ValueBool(TRUE))) }

OpDocs ==
    { ValueObject(MapNew), ValueNumber(5), ValueNull,
      Obj1(<<"a">>, ValueNumber(1)),
      Obj1(<<"a">>, Obj2(<<"a">>, ValueNumber(1), <<"b">>, Obj1(<<"c">>, ValueBool(TRUE)))),
      Obj2(<<"a">>, ValueArray(<<ValueNumber(1)>>), <<"b">>, ValueString(<<"y">>)) }

OpPaths ==
    { <<"a">>, <<"a", ".", "b">>, <<"a", ".", "b", ".", "a">>, <<"a", ".", "0">>,
      <<>>, <<"b", ".", ".", "a">> }

NoOp == [kind |-> "none"]

----------------------------------------------------------------------------
(* Result<T, ComponentError>; the error is kept by its kind (error.rs) *)

Ok(v) == [ok |-> TRUE, v |-> v]
Err(kind) == [ok |-> FALSE, err |-> kind]

\* The `?` operator: an error returns at once, a value goes on to the rest.
and_then(result, rest(_)) == IF result.ok THEN rest(result.v) ELSE result

(* Token strings *)

Whitespace == {" "}

RECURSIVE trim_start(_)
trim_start(s) == IF s # <<>> /\ Head(s) \in Whitespace THEN trim_start(Tail(s)) ELSE s

RECURSIVE trim_end(_)
trim_end(s) ==
    IF s # <<>> /\ s[Len(s)] \in Whitespace THEN trim_end(SubSeq(s, 1, Len(s) - 1)) ELSE s

trim(s) == trim_end(trim_start(s))

\* str::find of any of the tokens `toks`: the first index, 0 for None.
find(s, toks) ==
    IF \E i \in 1..Len(s) : s[i] \in toks
    THEN CHOOSE i \in 1..Len(s) : s[i] \in toks /\ \A j \in 1..(i - 1) : s[j] \notin toks
    ELSE 0

\* usize::to_string, and the text of a number as one token per digit.
RECURSIVE usize_text(_)
usize_text(n) ==
    IF n < 10 THEN <<Numerals[n + 1]>>
    ELSE usize_text(n \div 10) \o <<Numerals[(n % 10) + 1]>>

\* serde_json::from_str of a token string: the JSON texts the model writes.
from_str(s) ==
    CASE s # <<>> /\ (\A i \in 1..Len(s) : is_numeral(s[i])) -> Some(ValueNumber(parse_digits(s, 0)))
      [] s = <<"true">> -> Some(ValueBool(TRUE))
      [] s = <<"false">> -> Some(ValueBool(FALSE))
      [] s = <<"null">> -> Some(ValueNull)
      [] s = <<"{", "}">> -> Some(ValueObject(MapNew))
      [] s = <<"[", "]">> -> Some(ValueArray(<<>>))
      [] Len(s) >= 2 /\ s[1] = "\"" /\ s[Len(s)] = "\""
           /\ (\A i \in 2..(Len(s) - 1) : s[i] # "\"") ->
           Some(ValueString(SubSeq(s, 2, Len(s) - 1)))
      [] OTHER -> None

\* An order of the keys of a map, for the walks that visit a map entry by entry.
key_order(m) ==
    CHOOSE q \in [1..Cardinality(DOMAIN m) -> DOMAIN m] :
        \A i, j \in DOMAIN q : i # j => q[i] # q[j]

\* Value::to_string: the JSON text of a value.
RECURSIVE to_string(_)
to_string(value) ==
    CASE value.t = "null" -> <<"null">>
      [] value.t = "bool" -> IF value.b THEN <<"true">> ELSE <<"false">>
      [] value.t = "num" -> usize_text(value.n)
      [] value.t = "str" -> <<"\"">> \o value.s \o <<"\"">>
      [] value.t = "arr" ->
           LET RECURSIVE items(_)
               items(i) ==
                   IF i > Len(value.a) THEN <<>>
                   ELSE (IF i > 1 THEN <<",">> ELSE <<>>) \o to_string(value.a[i]) \o items(i + 1)
           IN  <<"[">> \o items(1) \o <<"]">>
      [] value.t = "obj" ->
           LET keys == key_order(value.m)
               RECURSIVE entries(_)
               entries(i) ==
                   IF i > Len(keys) THEN <<>>
                   ELSE (IF i > 1 THEN <<",">> ELSE <<>>)
                        \o <<"\"">> \o keys[i] \o <<"\"", ":">>
                        \o to_string(value.m[keys[i]]) \o entries(i + 1)
           IN  <<"{">> \o entries(1) \o <<"}">>

----------------------------------------------------------------------------
(* render.rs: the binding context *)

from_invocation(inv) ==
    [payload |-> inv.payload, session |-> inv.session, state |-> inv.state,
     template_params |-> IF inv.card_spec.template_params.some
                         THEN inv.card_spec.template_params.v
                         ELSE ValueObject(MapNew)]

\* raw.splitn(2, "||"): the path, trimmed, and the literal default if one is given.
parse_binding_path(raw) ==
    LET i == find(raw, {"||"})
        path == IF i = 0 THEN raw ELSE SubSeq(raw, 1, i - 1)
        d == IF i = 0 THEN <<>> ELSE trim(SubSeq(raw, i + 1, Len(raw)))
    IN  [path |-> trim(path),
         default |-> IF i = 0 \/ d = <<>> THEN None
                     ELSE IF from_str(d).some THEN from_str(d)
                     ELSE Some(ValueString(d))]

\* str::replace("..", "."): non-overlapping matches, left to right.
RECURSIVE collapse_dots(_)
collapse_dots(s) ==
    IF Len(s) < 2 THEN s
    ELSE IF s[1] = "." /\ s[2] = "." THEN <<".">> \o collapse_dots(SubSeq(s, 3, Len(s)))
    ELSE <<s[1]>> \o collapse_dots(Tail(s))

RECURSIVE trim_dots_start(_)
trim_dots_start(s) == IF s # <<>> /\ Head(s) = "." THEN trim_dots_start(Tail(s)) ELSE s

RECURSIVE trim_dots_end(_)
trim_dots_end(s) ==
    IF s # <<>> /\ s[Len(s)] = "." THEN trim_dots_end(SubSeq(s, 1, Len(s) - 1)) ELSE s

RECURSIVE replace_brackets(_)
replace_brackets(s) ==
    IF s = <<>> THEN <<>>
    ELSE (CASE Head(s) = "[" -> <<".">>
            [] Head(s) = "]" -> <<>>
            [] OTHER -> <<Head(s)>>) \o replace_brackets(Tail(s))

normalize_path(path) == trim_dots_end(trim_dots_start(collapse_dots(replace_brackets(path))))

or_else(a, b) == IF a.some THEN a ELSE b

\* lookup that gives the empty string for a path that is found nowhere.
lookup_blank(ctx, raw) ==
    LET rooted(segments, normalized) ==
            CASE Head(segments) = <<"payload">> -> lookup_in(ctx.payload, Tail(segments))
              [] Head(segments) = <<"session">> -> lookup_in(ctx.session, Tail(segments))
              [] Head(segments) = <<"state">> -> lookup_in(ctx.state, Tail(segments))
              [] Head(segments) \in {<<"params">>, <<"template">>} ->
                    lookup_in(ctx.template_params, Tail(segments))
              [] OTHER ->
                    or_else(lookup_in(ctx.payload, normalized),
                    or_else(lookup_in(ctx.session, normalized),
                    or_else(lookup_in(ctx.state, normalized),
                            lookup_in(ctx.template_params, normalized))))
        settle(found, default) ==
            IF found.some /\ ~is_null(found.v) THEN found
            ELSE IF default.some THEN default
            ELSE IF found.some THEN found
            ELSE Some(ValueString(<<>>))
        resolve(parsed) ==
            settle(rooted(split(parsed.path), split(normalize_path(parsed.path))),
                   parsed.default)
    IN  resolve(parse_binding_path(raw))

lookup(ctx, raw) ==
    LET rooted(segments, normalized) ==
            CASE Head(segments) = <<"payload">> -> lookup_in(ctx.payload, Tail(segments))
              [] Head(segments) = <<"session">> -> lookup_in(ctx.session, Tail(segments))
              [] Head(segments) = <<"state">> -> lookup_in(ctx.state, Tail(segments))
              [] Head(segments) \in {<<"params">>, <<"template">>} ->
                    lookup_in(ctx.template_params, Tail(segments))
              [] OTHER ->
                    or_else(lookup_in(ctx.payload, normalized),
                    or_else(lookup_in(ctx.session, normalized),
                    or_else(lookup_in(ctx.state, normalized),
                            lookup_in(ctx.template_params, normalized))))
        settle(found, default) ==
            IF found.some /\ ~is_null(found.v) THEN found
            ELSE IF default.some THEN default
            ELSE found
        resolve(parsed) ==
            settle(rooted(split(parsed.path), split(normalize_path(parsed.path))),
                   parsed.default)
    IN  resolve(parse_binding_path(raw))

----------------------------------------------------------------------------
(* The expression evaluator (expression.rs): equality and the ternary      *)
(* conditional over operands that are literals or binding paths.           *)

operand(ctx, text) ==
    LET t == trim(text)
    IN  IF from_str(t).some THEN from_str(t) ELSE lookup(ctx, t)

condition(ctx, text) ==
    LET i == find(text, {"=="})
        compare(lhs, rhs) ==
            IF i = 0 THEN (IF lhs.some /\ lhs.v.t = "bool" THEN lhs ELSE None)
            ELSE IF lhs.some /\ rhs.some THEN Some(ValueBool(lhs.v = rhs.v))
            ELSE None
    IN  compare(operand(ctx, IF i = 0 THEN text ELSE SubSeq(text, 1, i - 1)),
                operand(ctx, SubSeq(text, i + 1, Len(text))))

eval(expr, ctx) ==
    LET q == find(expr, {"?"})
        rest == SubSeq(expr, q + 1, Len(expr))
        c == find(rest, {":"})
        branch(cond) ==
            IF q = 0 THEN cond
            ELSE IF c = 0 \/ ~cond.some THEN None
            ELSE operand(ctx, IF cond.v.b THEN SubSeq(rest, 1, c - 1)
                              ELSE SubSeq(rest, c + 1, Len(rest)))
    IN  branch(condition(ctx, IF q = 0 THEN expr ELSE SubSeq(expr, 1, q - 1)))

stringify_value(value) == IF value.t = "str" THEN value.s ELSE to_string(value)

----------------------------------------------------------------------------
(* render.rs: pass B, placeholder and expression resolution *)

extract_expression(input) ==
    LET trimmed == trim(input)
    IN  IF Len(trimmed) >= 2 /\ trimmed[1] = "${" /\ trimmed[Len(trimmed)] = "}"
        THEN Some(trim(SubSeq(trimmed, 2, Len(trimmed) - 1)))
        ELSE None

extract_single_placeholder(input) ==
    LET trimmed == trim(input)
    IN  IF Len(trimmed) >= 2 /\ trimmed[1] = "@{" /\ trimmed[Len(trimmed)] = "}"
        THEN Some(trim(SubSeq(trimmed, 2, Len(trimmed) - 1)))
        ELSE None

is_simple_expression(expr) ==
    \A i \in 1..Len(trim(expr)) : trim(expr)[i] \notin (Whitespace \cup {"?", "==", ":"})

\* The scan of replace_placeholders from `cursor` on: the output it appends.
RECURSIVE replace_from(_, _, _)
replace_from(input, cursor, ctx) ==
    LET remaining == SubSeq(input, cursor, Len(input))
        pos == find(remaining, {"@{", "${"})
        absolute == cursor + pos - 1
        literal == SubSeq(input, cursor, absolute - 1)
        rest == SubSeq(input, absolute + 1, Len(input))
        end == find(rest, {"}"})
        append(replacement, after, skipped) ==
            IF pos = 0 THEN Ok(remaining)
            ELSE IF end = 0
            THEN IF skipped.ok THEN Ok(literal \o <<input[absolute]>> \o skipped.v)
                 ELSE skipped
            ELSE IF ~replacement.some THEN Err("Binding")
            ELSE IF ~after.ok THEN after
            ELSE Ok(literal \o stringify_value(replacement.v) \o after.v)
    IN  IF cursor > Len(input) THEN Ok(<<>>)
        ELSE append(lookup(ctx, trim(SubSeq(rest, 1, end - 1))),
                    replace_from(input, absolute + end + 1, ctx),
                    replace_from(input, absolute + 1, ctx))

\* replace_placeholders on the trimmed string.
replace_placeholders_trimmed(input, ctx) == replace_from(trim(input), 1, ctx)

replace_placeholders(input, ctx) == replace_from(input, 1, ctx)

bind_string(text, ctx) ==
    LET expr == extract_expression(text)
        single == extract_single_placeholder(text)
        bind(found, evaluated, replaced) ==
            IF expr.some /\ ~is_simple_expression(expr.v)
            THEN IF evaluated.some THEN Ok(ValueString(stringify_value(evaluated.v)))
                 ELSE Err("Binding")
            ELSE IF expr.some \/ single.some
            THEN IF found.some THEN Ok(found.v) ELSE Err("Binding")
            ELSE IF replaced.ok THEN Ok(ValueString(replaced.v))
            ELSE replaced
    IN  bind(lookup(ctx, IF expr.some THEN expr.v ELSE single.v),
             eval(expr.v, ctx),
             replace_placeholders(text, ctx))

RECURSIVE apply_bindings(_, _)
apply_bindings(value, ctx) ==
    CASE value.t = "str" -> bind_string(value.s, ctx)
      [] value.t = "arr" ->
           LET rs == [i \in 1..Len(value.a) |-> apply_bindings(value.a[i], ctx)]
           IN  IF \E i \in 1..Len(value.a) : ~rs[i].ok THEN Err("Binding")
               ELSE Ok(ValueArray([i \in 1..Len(value.a) |-> rs[i].v]))
      [] value.t = "obj" ->
           LET rs == [k \in DOMAIN value.m |-> apply_bindings(value.m[k], ctx)]
           IN  IF \E k \in DOMAIN value.m : ~rs[k].ok THEN Err("Binding")
               ELSE Ok(ValueObject([k \in DOMAIN value.m |-> rs[k].v]))
      [] OTHER -> Ok(value)

----------------------------------------------------------------------------
(* render.rs: pass A, structured templating *)

get(map, key) == IF contains_key(map, key) THEN Some(map[key]) ELSE None
value_get(value, key) == IF is_object(value) THEN get(value.m, key) ELSE None

resolve_state_node(state, node_id) ==
    LET nodes == value_get(state, <<"nodes">>)
        node == IF nodes.some THEN value_get(nodes.v, node_id) ELSE None
    IN  IF node.some /\ is_object(node.v) THEN Some(node.v.m) ELSE None

resolve_state_input(state) ==
    LET input == value_get(state, <<"input">>)
    IN  IF input.some /\ is_object(input.v) THEN Some(input.v.m) ELSE None

is_reserved_handlebars_key(key) ==
    key \in {<<"payload">>, <<"state">>, <<"node">>, <<"node_id">>, <<"node_payload">>}

build_handlebars_context(inv) ==
    LET base == map_insert(map_insert(MapNew, <<"payload">>, inv.payload),
                           <<"state">>, inv.state)
        node == IF inv.node_id.some THEN resolve_state_node(inv.state, inv.node_id.v)
                ELSE None
        withId == IF inv.node_id.some
                  THEN map_insert(base, <<"node_id">>, ValueString(inv.node_id.v))
                  ELSE base
        withPayload == IF node.some /\ contains_key(node.v, <<"payload">>)
                       THEN map_insert(withId, <<"node_payload">>, node.v[<<"payload">>])
                       ELSE withId
        withNode == IF node.some
                    THEN map_insert(withPayload, <<"node">>, ValueObject(node.v))
                    ELSE withId
        input == resolve_state_input(inv.state)
        extra == IF input.some
                 THEN {k \in DOMAIN input.v :
                          ~is_reserved_handlebars_key(k) /\ ~contains_key(withNode, k)}
                 ELSE {}
    IN  ValueObject([k \in (DOMAIN withNode) \cup extra |->
                        IF k \in DOMAIN withNode THEN withNode[k] ELSE input.v[k]])

\* What a rendered {{name}} prints for the value it resolves to.
template_text(found) ==
    IF ~found.some THEN <<>>
    ELSE CASE found.v.t = "str" -> found.v.s
           [] found.v.t = "null" -> <<>>
           [] found.v.t = "obj" -> <<"[object]">>
           [] OTHER -> to_string(found.v)

\* Handlebars::render_template, not in strict mode: text outside "{{ }}" is
\* kept, a {{name}} is replaced by the value at that name in the context (by
\* nothing when there is none), and an unclosed "{{" is a template error.
RECURSIVE render_template(_, _)
render_template(text, context) ==
    LET open == find(text, {"{{"})
        rest == SubSeq(text, open + 1, Len(text))
        close == find(rest, {"}}"})
        name == trim(SubSeq(rest, 1, close - 1))
        tail == render_template(SubSeq(rest, close + 1, Len(rest)), context)
    IN  IF open = 0 THEN Ok(text)
        ELSE IF close = 0 THEN Err("Binding")
        ELSE IF ~tail.ok THEN tail
        ELSE Ok(SubSeq(text, 1, open - 1)
                \o template_text(lookup_in(context, split(name))) \o tail.v)

RECURSIVE render_handlebars_value(_, _)
render_handlebars_value(value, context) ==
    CASE value.t = "str" ->
           LET rendered == render_template(value.s, context)
           IN  IF rendered.ok THEN Ok(ValueString(rendered.v)) ELSE rendered
      [] value.t = "arr" ->
           LET rs == [i \in 1..Len(value.a) |-> render_handlebars_value(value.a[i], context)]
           IN  IF \E i \in 1..Len(value.a) : ~rs[i].ok THEN Err("Binding")
               ELSE Ok(ValueArray([i \in 1..Len(value.a) |-> rs[i].v]))
      [] value.t = "obj" ->
           LET rs == [k \in DOMAIN value.m |-> render_handlebars_value(value.m[k], context)]
           IN  IF \E k \in DOMAIN value.m : ~rs[k].ok THEN Err("Binding")
               ELSE Ok(ValueObject([k \in DOMAIN value.m |-> rs[k].v]))
      [] OTHER -> Ok(value)

apply_handlebars(value, inv) == render_handlebars_value(value, build_handlebars_context(inv))

----------------------------------------------------------------------------
(* render.rs: validate_card *)

ValidationIssue(code, path) == [code |-> code, path |-> path]

as_str(o) == IF o.some /\ o.v.t = "str" THEN Some(o.v.s) ELSE None
as_array(o) == IF o.some /\ o.v.t = "arr" THEN Some(o.v.a) ELSE None
as_f64(o) == IF o.some /\ o.v.t = "num" THEN Some(o.v.n) ELSE None
starts_with(s, prefix) == Len(s) >= Len(prefix) /\ SubSeq(s, 1, Len(prefix)) = prefix

\* .and_then(as_str).map(|s| !s.is_empty()).unwrap_or(false)
non_empty_str(o) == as_str(o).some /\ as_str(o).v # <<>>

\* The walk's accumulators: the issues and the ids seen so far.
push_issue(acc, path, code) ==
    [acc EXCEPT !.issues = Append(@, ValidationIssue(code, path))]

validate_action(map, path, acc) ==
    LET kind == IF as_str(get(map, <<"type">>)).some THEN as_str(get(map, <<"type">>)).v
                ELSE <<>>
    IN  CASE kind = <<"Action", ".", "OpenUrl">> ->
               IF ~non_empty_str(get(map, <<"url">>))
               THEN push_issue(acc, path, "missing-url") ELSE acc
          [] kind = <<"Action", ".", "Execute">> ->
               LET a1 == IF ~as_str(get(map, <<"verb">>)).some
                         THEN push_issue(acc, path, "missing-verb") ELSE acc
                   data == get(map, <<"data">>)
               IN  IF data.some /\ ~is_object(data.v) /\ ~is_null(data.v)
                   THEN push_issue(a1, path, "invalid-data") ELSE a1
          [] kind = <<"Action", ".", "ShowCard">> ->
               LET a1 == IF ~contains_key(map, <<"card">>)
                         THEN push_issue(acc, path, "missing-card") ELSE acc
               IN  IF contains_key(map, <<"card">>) /\ ~is_object(map[<<"card">>])
                   THEN push_issue(a1, path, "invalid-card") ELSE a1
          [] kind = <<"Action", ".", "ToggleVisibility">> ->
               IF ~contains_key(map, <<"targetElements">>)
               THEN push_issue(acc, path, "missing-target-elements")
               ELSE IF as_array(get(map, <<"targetElements">>)).some
                       /\ as_array(get(map, <<"targetElements">>)).v = <<>>
               THEN push_issue(acc, path, "empty-target-elements")
               ELSE acc
          [] OTHER -> acc

invalid_choice(c) ==
    ~non_empty_str(value_get(c, <<"title">>)) \/ ~non_empty_str(value_get(c, <<"value">>))

validate_element(kind, map, path, acc) ==
    CASE kind = <<"Input", ".", "ChoiceSet">> ->
           LET choices == get(map, <<"choices">>)
               arr == as_array(choices)
           IN  IF ~choices.some THEN push_issue(acc, path, "missing-choices")
               ELSE IF ~arr.some THEN push_issue(acc, path, "invalid-choices")
               ELSE IF arr.v = <<>> THEN push_issue(acc, path, "empty-choices")
               ELSE IF \E i \in 1..Len(arr.v) : invalid_choice(arr.v[i])
               THEN push_issue(acc, path, "invalid-choice")
               ELSE acc
      [] kind = <<"Input", ".", "Toggle">> ->
           IF ~non_empty_str(get(map, <<"title">>))
           THEN push_issue(acc, path, "missing-title") ELSE acc
      [] kind = <<"Input", ".", "Number">> ->
           LET min == as_f64(get(map, <<"min">>))
               max == as_f64(get(map, <<"max">>))
           IN  IF min.some /\ max.some /\ min.v > max.v
               THEN push_issue(acc, path, "invalid-range") ELSE acc
      [] kind = <<"ColumnSet">> ->
           LET columns == get(map, <<"columns">>)
           IN  IF ~columns.some THEN acc
               ELSE IF ~as_array(columns).some THEN push_issue(acc, path, "invalid-columns")
               ELSE IF as_array(columns).v = <<>> THEN push_issue(acc, path, "empty-columns")
               ELSE acc
      [] kind = <<"Media">> ->
           LET sources == get(map, <<"sources">>)
               arr == as_array(sources)
           IN  IF ~sources.some THEN push_issue(acc, path, "missing-sources")
               ELSE IF ~arr.some THEN push_issue(acc, path, "invalid-sources")
               ELSE IF arr.v = <<>> THEN push_issue(acc, path, "missing-sources")
               ELSE IF \E i \in 1..Len(arr.v) : ~non_empty_str(value_get(arr.v[i], <<"url">>))
               THEN push_issue(acc, path, "invalid-source")
               ELSE acc
      [] OTHER -> acc

RECURSIVE visit(_, _, _)
RECURSIVE visit_entries(_, _, _, _, _)
RECURSIVE visit_items(_, _, _, _)

visit(value, path, acc) ==
    CASE value.t = "obj" ->
           LET map == value.m
               kind == IF as_str(get(map, <<"type">>)).some
                       THEN as_str(get(map, <<"type">>)).v ELSE <<>>
               isInput == starts_with(kind, <<"Input", ".">>)
               isAction == starts_with(kind, <<"Action", ".">>)
               id == as_str(get(map, <<"id">>))
               a1 == IF isInput /\ ~contains_key(map, <<"id">>)
                     THEN push_issue(acc, path, "missing-id") ELSE acc
               a2 == IF isInput /\ id.some
                     THEN IF id.v \in a1.input_ids
                          THEN push_issue(a1, path, "duplicate-id")
                          ELSE [a1 EXCEPT !.input_ids = @ \cup {id.v}]
                     ELSE a1
               a3 == IF isAction /\ id.some
                     THEN IF id.v \in a2.action_ids
                          THEN push_issue(a2, path, "duplicate-action-id")
                          ELSE [a2 EXCEPT !.action_ids = @ \cup {id.v}]
                     ELSE a2
               a4 == IF isAction THEN validate_action(map, path, a3) ELSE a3
               a5 == validate_element(kind, map, path, a4)
           IN  visit_entries(map, key_order(map), 1, path, a5)
      [] value.t = "arr" -> visit_items(value.a, 1, path, acc)
      [] OTHER -> acc

visit_entries(map, keys, i, path, acc) ==
    IF i > Len(keys) THEN acc
    ELSE visit_entries(map, keys, i + 1, path,
                       visit(map[keys[i]], path \o <<"/">> \o keys[i], acc))

visit_items(items, i, path, acc) ==
    IF i > Len(items) THEN acc
    ELSE visit_items(items, i + 1, path,
                     visit(items[i], path \o <<"/">> \o usize_text(i - 1), acc))

validate_card(card) ==
    LET root == [issues |-> <<>>, input_ids |-> {}, action_ids |-> {}]
        a1 == IF as_str(value_get(card, <<"type">>)) # Some(<<"AdaptiveCard">>)
              THEN push_issue(root, <<"/", "type">>, "invalid-type") ELSE root
        a2 == IF ~value_get(card, <<"version">>).some
              THEN push_issue(a1, <<"/", "version">>, "missing-version") ELSE a1
        a3 == IF value_get(card, <<"body">>).some /\ value_get(card, <<"body">>).v.t # "arr"
              THEN push_issue(a2, <<"/", "body">>, "invalid-body") ELSE a2
        a4 == IF value_get(card, <<"actions">>).some
                 /\ value_get(card, <<"actions">>).v.t # "arr"
              THEN push_issue(a3, <<"/", "actions">>, "invalid-actions") ELSE a3
    IN  IF ~is_object(card)
        THEN <<ValidationIssue("invalid-root", <<"/">>)>>
        ELSE visit(card, <<>>, a4).issues

----------------------------------------------------------------------------
(* render.rs: resolve_card and render_card *)

\* Inline: the embedded document, or invalid input when there is none.
resolve_card(inv) ==
    IF inv.card_spec.inline_json.some THEN Ok(inv.card_spec.inline_json.v)
    ELSE Err("InvalidInput")

render_card(inv) ==
    and_then(resolve_card(inv), LAMBDA card :
    and_then(apply_handlebars(card, inv), LAMBDA templated :
    and_then(apply_bindings(templated, from_invocation(inv)), LAMBDA bound :
    Ok([card |-> bound, validation_issues |-> validate_card(bound)]))))

----------------------------------------------------------------------------
(* render.rs: the Asset and Catalog sources.  `env` is what the locator      *)
(* reads outside the invocation: the files, the registries named by the     *)
(* environment, the base directory and the host resolver.  A path is a      *)
(* token string with "/" and ".json" as tokens.                             *)

contains(s, tok) == \E i \in 1..Len(s) : s[i] = tok
ends_with(s, suffix) ==
    Len(s) >= Len(suffix) /\ SubSeq(s, Len(s) - Len(suffix) + 1, Len(s)) = suffix

\* Path::is_absolute, and PathBuf::from(base).join(path)
is_absolute(path) == path # <<>> /\ Head(path) = "/"
join(base, path) ==
    IF is_absolute(path) \/ base = <<>> THEN path
    ELSE IF base[Len(base)] = "/" THEN base \o path
    ELSE base \o <<"/">> \o path

RECURSIVE trim_start_matches(_, _)
trim_start_matches(s, tok) ==
    IF s # <<>> /\ Head(s) = tok THEN trim_start_matches(Tail(s), tok) ELSE s

\* One operation of the locator as its log keeps it.
LocatorOp(name, arg) == [op |-> name, arg |-> arg]

\* std::fs::read_to_string
read_to_string(env, path) ==
    IF path \in env.unreadable THEN Err("Io")
    ELSE IF path \in DOMAIN env.fs THEN Ok(env.fs[path])
    ELSE Err("NotFound")

\* ADAPTIVE_CARD_ASSET_REGISTRY: unset, a map, or a file that cannot be read.
env_asset_registry(env) == env.registry

asset_base_path(env) == IF env.base.some THEN env.base.v ELSE <<"assets">>

\* push of the candidate lists: a value already seen is not listed again.
push(list, value) == IF \E i \in 1..Len(list) : list[i] = value THEN list ELSE Append(list, value)

push_some(list, o) == IF o.some THEN push(list, o.v) ELSE list

registry_get(registry, name) == IF registry.some THEN get(registry.v, name) ELSE None

candidate_asset_paths(path, registry, env) ==
    LET c1 == push_some(<<>>, registry_get(registry, path))
        c2 == IF env_asset_registry(env).ok
              THEN push_some(c1, registry_get(env_asset_registry(env).v, path))
              ELSE c1
    IN  Ok(IF is_absolute(path) \/ starts_with(path, <<".", "/">>)
              \/ starts_with(path, <<".", ".", "/">>) \/ contains(path, "/")
           THEN push(c2, path)
           ELSE push(push(c2, join(asset_base_path(env), path)), path))

\* The registry of the card spec, then the one of the environment, then
\* the catalog file (ADAPTIVE_CARD_CATALOG_FILE).
resolve_catalog_mapping(name, spec, env) ==
    IF registry_get(spec.asset_registry, name).some
    THEN Ok(registry_get(spec.asset_registry, name))
    ELSE IF ~env_asset_registry(env).ok THEN env_asset_registry(env)
    ELSE IF registry_get(env_asset_registry(env).v, name).some
    THEN Ok(registry_get(env_asset_registry(env).v, name))
    ELSE IF ~env.catalog.ok THEN env.catalog
    ELSE Ok(registry_get(env.catalog.v, name))

candidate_catalog_paths(name, spec, env) ==
    and_then(resolve_catalog_mapping(name, spec, env), LAMBDA mapped :
        LET c1 == push_some(<<>>, mapped)
            c2 == push(c1, asset_base_path(env) \o <<"/">> \o name \o <<".json">>)
        IN  Ok(IF is_absolute(name) \/ contains(name, "/") \/ ends_with(name, <<".json">>)
               THEN push(c2, name) ELSE c2))

load_card_from_path(env, path) ==
    LET content == read_to_string(env, path)
    IN  IF ~content.ok
        THEN (IF content.err = "NotFound" THEN Err("AssetNotFound") ELSE Err("Io"))
        ELSE IF ~from_str(content.v).some THEN Err("AssetParse")
        ELSE Ok(from_str(content.v).v)

\* The host resolver: a path for a logical name, none, or a failure.
resolve_with_host(env, lookup_key) ==
    IF ~env.host.ok THEN env.host ELSE Ok(get(env.host.v, lookup_key))

\* What the locator leaves: the card with its resolution or the error, and
\* the files it opened and the resolver calls it made, in order.
Located(res, log) == [res |-> res, log |-> log]

AssetResolution(mode, path) == [mode |-> mode, resolved |-> Some(path)]

\* The fallback of load_with_candidates, after the loop over the candidates.
load_with_host(lookup_key, env, last_err, log) ==
    LET host == resolve_with_host(env, lookup_key)
        asked == Append(log, LocatorOp("resolve", lookup_key))
        none == IF last_err.some THEN Err(last_err.v) ELSE Err("InvalidInput")
    IN  IF ~host.ok THEN Located(Err("Asset"), asked)
        ELSE IF ~host.v.some THEN Located(none, asked)
        ELSE IF load_card_from_path(env, host.v.v).ok
        THEN Located(Ok([card |-> load_card_from_path(env, host.v.v).v,
                         asset_resolution |-> AssetResolution("host", host.v.v)]),
                     Append(asked, LocatorOp("open", host.v.v)))
        ELSE Located(Err(load_card_from_path(env, host.v.v).err),
                     Append(asked, LocatorOp("open", host.v.v)))

\* load_with_candidates that asks the host before the last local candidate.
RECURSIVE try_host_early(_, _, _, _, _)
try_host_early(lookup_key, candidates, env, last_err, log) ==
    IF Len(candidates) <= 1 /\ load_with_host(lookup_key, env, last_err, log).res.ok
    THEN load_with_host(lookup_key, env, last_err, log)
    ELSE IF candidates = <<>> THEN load_with_host(lookup_key, env, last_err, log)
    ELSE LET loaded == load_card_from_path(env, Head(candidates))
             opened == Append(log, LocatorOp("open", Head(candidates)))
         IN  IF loaded.ok
             THEN Located(Ok([card |-> loaded.v,
                              asset_resolution |-> AssetResolution("wasm", Head(candidates))]),
                          opened)
             ELSE try_host_early(lookup_key, Tail(candidates), env, Some(loaded.err), opened)

load_with_candidates_host_early(lookup_key, candidates, env) ==
    try_host_early(lookup_key, candidates, env, None, <<>>)

\* The loop of load_with_candidates from the first candidate not yet tried.
RECURSIVE try_candidates(_, _, _, _, _)
try_candidates(lookup_key, candidates, env, last_err, log) ==
    IF candidates = <<>> THEN load_with_host(lookup_key, env, last_err, log)
    ELSE LET loaded == load_card_from_path(env, Head(candidates))
             opened == Append(log, LocatorOp("open", Head(candidates)))
         IN  IF loaded.ok
             THEN Located(Ok([card |-> loaded.v,
                              asset_resolution |-> AssetResolution("wasm", Head(candidates))]),
                          opened)
             ELSE try_candidates(lookup_key, Tail(candidates), env, Some(loaded.err), opened)

load_with_candidates(lookup_key, candidates, env) ==
    try_candidates(lookup_key, candidates, env, None, <<>>)

\* resolve_card, CardSource::Asset
resolve_asset(spec, env) ==
    IF ~spec.asset_path.some THEN Located(Err("InvalidInput"), <<>>)
    ELSE LET candidates == candidate_asset_paths(spec.asset_path.v, spec.asset_registry, env)
         IN  IF ~candidates.ok THEN Located(candidates, <<>>)
             ELSE load_with_candidates(spec.asset_path.v, candidates.v, env)

\* resolve_card, CardSource::Catalog
resolve_catalog(spec, env) ==
    IF ~spec.catalog_name.some THEN Located(Err("InvalidInput"), <<>>)
    ELSE LET normalized == trim_start_matches(spec.catalog_name.v, "/")
             candidates == candidate_catalog_paths(normalized, spec, env)
         IN  IF ~candidates.ok THEN Located(candidates, <<>>)
             ELSE load_with_candidates(normalized, candidates.v, env)

----------------------------------------------------------------------------
(* state_store.rs: keys and the State Backend *)

\* A stored byte string is the JSON text of one document: a one-element
\* sequence holding the document; the empty sequence is the empty byte string.
to_vec(state) == <<state>>
from_slice(bytes) == bytes[1]

\* state_key without the card instance id: every card shares one key.
state_key_shared(inv, interaction) ==
    IF inv.node_id.some THEN <<"adaptive-card:node:">> \o inv.node_id.v
    ELSE IF interaction.some THEN <<"adaptive-card:card:">>
    ELSE <<"adaptive-card:default">>

state_key(inv, interaction) ==
    IF inv.node_id.some THEN <<"adaptive-card:node:">> \o inv.node_id.v
    ELSE IF interaction.some
    THEN <<"adaptive-card:card:">> \o interaction.v.card_instance_id
    ELSE <<"adaptive-card:default">>

\* One backend operation as the invocation's log keeps it.
BackendOp(name, key) == [op |-> name, key |-> key]

\* `fault` is what the backend does to this invocation: "none", or "read" /
\* "write" when that operation fails (a poisoned lock, a host error).
read_bytes(st, key, fault) ==
    IF fault = "read" THEN Err("StateStore") ELSE Ok(get(st, key))

read_state(st, key, fault) ==
    LET bytes == read_bytes(st, key, fault)
    IN  IF ~bytes.ok THEN bytes
        ELSE IF ~bytes.v.some THEN Ok(None)
        ELSE IF bytes.v.v = <<>> THEN Ok(None)
        ELSE Ok(Some(from_slice(bytes.v.v)))

write_state_merging(st, key, bytes, fault) ==
    IF fault = "write" THEN [res |-> Err("StateStore"), store |-> st]
    ELSE [res |-> Ok(TRUE),
          store |-> IF contains_key(st, key) /\ is_object(from_slice(st[key]))
                       /\ is_object(from_slice(bytes))
                    THEN map_insert(st, key,
                             to_vec(ValueObject(
                                 [k \in (DOMAIN from_slice(st[key]).m)
                                        \cup (DOMAIN from_slice(bytes).m) |->
                                     IF k \in DOMAIN from_slice(bytes).m
                                     THEN from_slice(bytes).m[k]
                                     ELSE from_slice(st[key]).m[k]])))
                    ELSE map_insert(st, key, bytes)]

write_state(st, key, bytes, fault) ==
    IF fault = "write" THEN [res |-> Err("StateStore"), store |-> st]
    ELSE [res |-> Ok(TRUE), store |-> map_insert(st, key, bytes)]

delete_state(st, key, fault) ==
    IF fault = "write" THEN [res |-> Err("StateStore"), store |-> st]
    ELSE [res |-> Ok(TRUE), store |-> map_remove(st, key)]

load_state_always(inv, interaction, st, fault) ==
    LET key == state_key(inv, interaction)
        loaded == read_state(st, key, fault)
    IN  [res |-> loaded,
         inv |-> IF loaded.ok /\ loaded.v.some THEN [inv EXCEPT !.state = loaded.v.v]
                 ELSE inv,
         ops |-> <<BackendOp("read", key)>>]

\* The result, the invocation with its state filled in, and the backend
\* operations performed.
load_state_if_missing(inv, interaction, st, fault) ==
    LET key == state_key(inv, interaction)
        loaded == read_state(st, key, fault)
    IN  IF ~is_null(inv.state) THEN [res |-> Ok(None), inv |-> inv, ops |-> <<>>]
        ELSE [res |-> loaded,
              inv |-> IF loaded.ok /\ loaded.v.some THEN [inv EXCEPT !.state = loaded.v.v]
                      ELSE inv,
              ops |-> <<BackendOp("read", key)>>]

persist_state(inv, interaction, state, st, fault) ==
    LET key == state_key(inv, interaction)
        deleted == delete_state(st, key, fault)
        written == write_state(st, key, to_vec(state), fault)
    IN  IF is_null(state)
        THEN [res |-> deleted.res, store |-> deleted.store,
              ops |-> <<BackendOp("delete", key)>>]
        ELSE [res |-> written.res, store |-> written.store,
              ops |-> <<BackendOp("write", key)>>]

----------------------------------------------------------------------------
(* interaction.rs *)

SetRoute(route) == [kind |-> "SetRoute", route |-> route]

normalize_inputs(raw) ==
    CASE raw.t = "obj" -> raw
      [] raw.t = "null" -> ValueObject(MapNew)
      [] raw.t = "str" ->
           IF from_str(raw.s).some THEN from_str(raw.s).v
           ELSE ValueObject(map_insert(MapNew, <<"value">>, ValueString(raw.s)))
      [] OTHER -> ValueObject(map_insert(MapNew, <<"value">>, raw))

\* The checks without the one on the card instance id.
check_interaction_action_only(inv) ==
    IF ~inv.interaction.some THEN Err("InvalidInput")
    ELSE IF trim(inv.interaction.v.action_id) = <<>> THEN Err("InteractionInvalid")
    ELSE Ok(inv.interaction.v)

\* The checks at the head of handle_interaction.
check_interaction(inv) ==
    IF ~inv.interaction.some THEN Err("InvalidInput")
    ELSE IF trim(inv.interaction.v.action_id) = <<>> THEN Err("InteractionInvalid")
    ELSE IF trim(inv.interaction.v.card_instance_id) = <<>> THEN Err("InteractionInvalid")
    ELSE Ok(inv.interaction.v)

\* interaction_updates that handles every interaction type as a Submit.
interaction_updates_untyped(interaction) ==
    <<Merge(<<"form_data">>, normalize_inputs(interaction.raw_inputs))>>

interaction_updates(interaction) ==
    LET subcard == as_str(value_get(interaction.metadata, <<"subcardId">>))
        visible == value_get(interaction.metadata, <<"visible">>)
    IN  CASE interaction.interaction_type \in {"Submit", "Execute"} ->
               <<Merge(<<"form_data">>, normalize_inputs(interaction.raw_inputs))>>
          [] interaction.interaction_type = "OpenUrl" -> <<>>
          [] interaction.interaction_type = "ShowCard" ->
               <<Set(<<"ui", ".", "active_show_card", ".">> \o interaction.card_instance_id,
                     ValueString(IF subcard.some THEN subcard.v ELSE interaction.action_id))>>
          [] interaction.interaction_type = "ToggleVisibility" ->
               <<Set(<<"ui", ".", "visibility", ".">> \o interaction.action_id,
                     ValueBool(IF visible.some /\ visible.v.t = "bool" THEN visible.v.b
                               ELSE TRUE))>>

\* action_event that carries the route whatever its type.
action_event_any_route(interaction) ==
    [action_type |-> interaction.interaction_type,
     action_id |-> interaction.action_id,
     route |-> IF value_get(interaction.metadata, <<"route">>).some
               THEN Some(to_string(value_get(interaction.metadata, <<"route">>).v))
               ELSE None,
     inputs |-> normalize_inputs(interaction.raw_inputs),
     card_id |-> IF as_str(value_get(interaction.metadata, <<"cardId">>)).some
                 THEN as_str(value_get(interaction.metadata, <<"cardId">>)).v
                 ELSE interaction.card_instance_id,
     card_instance_id |-> interaction.card_instance_id,
     subcard_id |-> as_str(value_get(interaction.metadata, <<"subcardId">>)),
     metadata |-> interaction.metadata]

\* action_event that carries the raw inputs.
action_event_raw_inputs(interaction) ==
    [action_type |-> interaction.interaction_type,
     action_id |-> interaction.action_id,
     route |-> as_str(value_get(interaction.metadata, <<"route">>)),
     inputs |-> interaction.raw_inputs,
     card_id |-> IF as_str(value_get(interaction.metadata, <<"cardId">>)).some
                 THEN as_str(value_get(interaction.metadata, <<"cardId">>)).v
                 ELSE interaction.card_instance_id,
     card_instance_id |-> interaction.card_instance_id,
     subcard_id |-> as_str(value_get(interaction.metadata, <<"subcardId">>)),
     metadata |-> interaction.metadata]

action_event(interaction) ==
    LET card == as_str(value_get(interaction.metadata, <<"cardId">>))
    IN  [action_type |-> interaction.interaction_type,
         action_id |-> interaction.action_id,
         route |-> as_str(value_get(interaction.metadata, <<"route">>)),
         inputs |-> normalize_inputs(interaction.raw_inputs),
         card_id |-> IF card.some THEN card.v ELSE interaction.card_instance_id,
         card_instance_id |-> interaction.card_instance_id,
         subcard_id |-> as_str(value_get(interaction.metadata, <<"subcardId">>)),
         metadata |-> interaction.metadata]

\* handle_interaction between its read and its write: the render, the update
\* intents, the event and the document to persist, from the invocation as
\* load_state_if_missing left it.
interaction_outcome(invocation, interaction) ==
    LET route == as_str(value_get(interaction.metadata, <<"route">>))
        base == IF is_null(invocation.state) THEN ValueObject(MapNew) ELSE invocation.state
        outcome(resolved, state_updates) ==
            IF ~resolved.ok THEN resolved
            ELSE Ok([persisted_state |-> apply_updates(base, state_updates),
                     result |-> [rendered_card |-> Some(resolved.v.card),
                                 event |-> Some(action_event(interaction)),
                                 state_updates |-> state_updates,
                                 session_updates |-> IF route.some THEN <<SetRoute(route.v)>>
                                                     ELSE <<>>,
                                 validation_issues |-> resolved.v.validation_issues]])
    IN  outcome(render_card(invocation), interaction_updates(interaction))

\* What a handler leaves behind: its result, the backend, the backend
\* operations it performed, and the state document it worked with.
Outcome(result, st, ops, state) ==
    [result |-> result, store |-> st, ops |-> ops, state |-> state]

\* handle_interaction with the write moved ahead of the render.
handle_interaction_persist_first(inv, st, fault) ==
    LET checked == check_interaction(inv)
        loaded == load_state_if_missing(inv, Some(checked.v), st, fault)
        invocation == loaded.inv
        state_updates == interaction_updates(checked.v)
        base == IF is_null(invocation.state) THEN ValueObject(MapNew) ELSE invocation.state
        persisted == persist_state(invocation, Some(checked.v),
                                   apply_updates(base, state_updates), st, fault)
        outcome == interaction_outcome(invocation, checked.v)
    IN  IF ~checked.ok THEN Outcome(checked, st, <<>>, inv.state)
        ELSE IF ~loaded.res.ok THEN Outcome(loaded.res, st, loaded.ops, inv.state)
        ELSE IF ~persisted.res.ok
        THEN Outcome(persisted.res, persisted.store, loaded.ops \o persisted.ops,
                     invocation.state)
        ELSE IF ~outcome.ok
        THEN Outcome(outcome, persisted.store, loaded.ops \o persisted.ops,
                     invocation.state)
        ELSE Outcome(Ok(outcome.v.result), persisted.store, loaded.ops \o persisted.ops,
                     invocation.state)

handle_interaction(inv, st, fault) ==
    LET checked == check_interaction(inv)
        loaded == load_state_if_missing(inv, Some(checked.v), st, fault)
        persist(outcome, persisted) ==
            IF ~checked.ok THEN Outcome(checked, st, <<>>, inv.state)
            ELSE IF ~loaded.res.ok THEN Outcome(loaded.res, st, loaded.ops, inv.state)
            ELSE IF ~outcome.ok THEN Outcome(outcome, st, loaded.ops, loaded.inv.state)
            ELSE Outcome(IF persisted.res.ok THEN Ok(outcome.v.result) ELSE persisted.res,
                         persisted.store, loaded.ops \o persisted.ops, loaded.inv.state)
        render(outcome) ==
            persist(outcome, persist_state(loaded.inv, Some(checked.v),
                                           outcome.v.persisted_state, st, fault))
    IN  render(interaction_outcome(loaded.inv, checked.v))

----------------------------------------------------------------------------
(* lib.rs: handle_invocation *)

\* drop_disabled that keeps every interaction.
keep_disabled(inv) == inv

\* An interaction whose enabled flag is false is dropped.
drop_disabled(inv) ==
    IF inv.interaction.some /\ inv.interaction.v.enabled = Some(FALSE)
    THEN [inv EXCEPT !.interaction = None]
    ELSE inv

\* The pass without an interaction: render, and escalate the issues in Error mode.
render_outcome(invocation) ==
    LET escalate(rendered) ==
            IF ~rendered.ok THEN rendered
            ELSE IF invocation.validation_mode = "Error"
                    /\ rendered.v.validation_issues # <<>>
            THEN Err("CardValidation")
            ELSE Ok([rendered_card |-> IF invocation.mode = "Validate" THEN None
                                       ELSE Some(rendered.v.card),
                     event |-> None,
                     state_updates |-> <<>>,
                     session_updates |-> <<>>,
                     validation_issues |-> rendered.v.validation_issues])
    IN  escalate(render_card(invocation))

handle_invocation(inv, st, fault) ==
    LET loaded == load_state_if_missing(inv, None, st, fault)
        invocation == drop_disabled(loaded.inv)
        dispatch(inner, rendered) ==
            IF ~loaded.res.ok THEN Outcome(loaded.res, st, loaded.ops, inv.state)
            ELSE IF invocation.interaction.some
            THEN [inner EXCEPT !.ops = loaded.ops \o @]
            ELSE Outcome(rendered, st, loaded.ops, invocation.state)
    IN  dispatch(handle_interaction(invocation, st, fault), render_outcome(invocation))

----------------------------------------------------------------------------
(* The invocations the model draws from *)

MaxInvocations == 2

Str(tok) == ValueString(<<tok>>)

TextBlock(text) == Obj2(<<"type">>, Str("TextBlock"), <<"text">>, ValueString(text))

Card(version, body) ==
    LET base == map_insert(map_insert(MapNew, <<"type">>, Str("AdaptiveCard")),
                           <<"body">>, ValueArray(body))
    IN  ValueObject(IF version.some THEN map_insert(base, <<"version">>, version.v)
                    ELSE base)

\* A card with no issue and no binding; one without a version (an issue);
\* one whose text is bound to the state document; one with a toggle action
\* that has no target elements (an issue).
CardPlain == Card(Some(Str("1.6")), <<TextBlock(<<"Hello">>)>>)
CardNoVersion == Card(None, <<TextBlock(<<"Hello">>)>>)
CardBound ==
    Card(Some(Str("1.6")),
         <<TextBlock(<<"@{", "state", ".", "form_data", ".", "name", "}">>)>>)
CardMixed ==
    Card(Some(Str("1.6")),
         <<TextBlock(<<"Hi", " ", "@{", "form_data", ".", "name", "||", "\"", "you", "\"", "}">>),
           Obj1(<<"type">>, ValueString(<<"Action", ".", "ToggleVisibility">>))>>)

\* A card without any template, placeholder or expression syntax: blanks
\* around a text, lone braces, "$" and "@", an empty string, leaves that are
\* not strings, and a key (not a leaf) that reads like a placeholder.
CardRich ==
    Card(Some(Str("1.6")),
         <<TextBlock(<<" ", "Hello", " ">>),
           TextBlock(<<"a", "}", "{", "$", "@", "b">>),
           ValueObject(map_insert(map_insert(map_insert(map_insert(MapNew,
               <<"type">>, ValueString(<<"Input", ".", "Number">>)),
               <<"id">>, ValueString(<<>>)), <<"min">>, ValueNumber(1)),
               <<"@{", "k", "}">>, ValueNull)),
           ValueArray(<<ValueBool(TRUE), ValueNumber(3), ValueNull,
                        Obj1(<<"text">>, ValueString(<<" ">>))>>)>>)

StateBob == Obj1(<<"form_data">>, Obj1(<<"name">>, Str("Bob")))
InputsAda == Obj1(<<"name">>, Str("Ada"))
InputsTier == Obj1(<<"tier">>, Str("pro"))
MetaFull ==
    ValueObject(map_insert(map_insert(map_insert(MapNew,
        <<"route">>, Str("next")), <<"visible">>, ValueBool(FALSE)),
        <<"subcardId">>, Str("sub")))

\* Metadata whose visible, subcardId and route are not of the type the
\* handler reads.
MetaOdd ==
    ValueObject(map_insert(map_insert(map_insert(MapNew,
        <<"visible">>, Str("no")), <<"subcardId">>, ValueNumber(5)),
        <<"route">>, ValueNumber(5)))

InteractionTypes == {"Submit", "Execute", "OpenUrl", "ShowCard", "ToggleVisibility"}

CardInteraction(type, action_id, card_instance_id, raw_inputs, metadata, enabled) ==
    [interaction_type |-> type, action_id |-> action_id,
     card_instance_id |-> card_instance_id, raw_inputs |-> raw_inputs,
     metadata |-> metadata, enabled |-> enabled]

AdaptiveCardInvocation(node_id, state, inline_json, interaction, validation_mode, mode) ==
    [card_source |-> "Inline",
     card_spec |-> [inline_json |-> inline_json, template_params |-> None],
     node_id |-> node_id, payload |-> ValueNull, session |-> ValueNull, state |-> state,
     interaction |-> interaction, mode |-> mode, validation_mode |-> validation_mode]

Submit(action_id, card_instance_id, raw_inputs) ==
    CardInteraction("Submit", action_id, card_instance_id, raw_inputs, ValueNull, None)

\* A reference as a card writes it: a path and, after "||", the text of a
\* literal default, kept with the JSON value that text stands for.
Ref(path, default) == [path |-> path, default |-> default]
Literal(text, value) == Some([text |-> text, value |-> value])

RefText(ref, spaced) ==
    LET pad == IF spaced THEN <<" ">> ELSE <<>>
    IN  pad \o ref.path \o pad
        \o (IF ref.default.some THEN <<"||">> \o pad \o ref.default.v.text \o pad
            ELSE <<>>)

\* The pieces of a string leaf: literal text, a placeholder, or a delimiter
\* that is never closed; and the string they make.
Text(toks) == [kind |-> "text", text |-> toks]
Placeholder(marker, ref) == [kind |-> "ref", marker |-> marker, ref |-> ref]
Open(marker) == [kind |-> "open", marker |-> marker]

RECURSIVE TextOf(_)
TextOf(segs) ==
    IF segs = <<>> THEN <<>>
    ELSE (CASE Head(segs).kind = "text" -> Head(segs).text
            [] Head(segs).kind = "ref" ->
                 <<Head(segs).marker>> \o RefText(Head(segs).ref, FALSE) \o <<"}">>
            [] Head(segs).kind = "open" -> <<Head(segs).marker>>)
         \o TextOf(Tail(segs))

Markers == {"@{", "${"}

UserName(name) == Obj1(<<"user">>, Obj1(<<"name">>, name))
SessionAda ==
    Obj2(<<"user">>, Obj1(<<"name">>, Str("Ada")),
         <<"items">>, ValueArray(<<ValueNumber(1), Obj1(<<"id">>, ValueNumber(2))>>))

\* References in the positions of a lookup: rooted and not, through an array
\* with a dot and with brackets, absent, and the defaults a card can write.
LookupRefs ==
    { Ref(p, d) :
        p \in { <<"session", ".", "user", ".", "name">>, <<"user", ".", "name">>,
                <<"session", ".", "items", ".", "1", ".", "id">>,
                <<"items", "[", "1", "]", ".", "id">>, <<"missing">>,
                <<"session", ".", "items", "[", "1", "]", ".", "id">>,
                <<"payload", ".", "user", ".", "name">>,
                <<"payload", ".", "missing", ".", "x">>,
                <<"state", ".", "form_data", ".", "name">>,
                <<"params", ".", "user", ".", "name">>, <<"template", ".", "user">>,
                <<"session">> },
        d \in { None, Literal(<<"\"", "Guest", "\"">>, Str("Guest")),
                Literal(<<"Guest">>, Str("Guest")), Literal(<<"5">>, ValueNumber(5)),
                Literal(<<"null">>, ValueNull) } }

\* References in the positions of a string leaf.
LeafRefs ==
    { Ref(<<"session", ".", "user", ".", "name">>, None),
      Ref(<<"state", ".", "form_data", ".", "name">>, None),
      Ref(<<"state", ".", "form_data", ".", "name">>, Literal(<<"\"", "you", "\"">>, Str("you"))),
      Ref(<<"missing">>, None),
      Ref(<<"session", ".", "items", ".", "1", ".", "id">>, None) }

\* The string leaves of the cards of the invocations: one placeholder,
\* whole-string or inside text.
BoundLeaves ==
    { <<Placeholder(m, r)>> : m \in Markers, r \in LeafRefs }
    \cup { <<Text(<<"Hi", " ">>), Placeholder(m, r), Text(<<"!">>)>> :
             m \in Markers, r \in LeafRefs }

\* String leaves: one placeholder alone, one inside text, two with text
\* between, around or nowhere, and delimiters that are never closed.
LeafSegments ==
    BoundLeaves
    \cup { <<Placeholder(m1, r1), Text(<<" ", "and", " ">>), Placeholder(m2, r2)>> :
             m1 \in Markers, r1 \in LeafRefs, m2 \in Markers, r2 \in LeafRefs }
    \cup { <<Placeholder(m1, r1), Placeholder(m2, r2)>> :
             m1 \in Markers, r1 \in LeafRefs, m2 \in Markers, r2 \in LeafRefs }
    \cup { <<Text(<<"A">>), Placeholder(m1, r1), Text(<<" ">>), Placeholder(m2, r2),
             Text(<<"Z">>)>> :
             m1 \in Markers, r1 \in LeafRefs, m2 \in Markers, r2 \in LeafRefs }
    \cup { <<Text(<<"x", " ">>), Placeholder(m1, r), Open(m2), Text(<<"tail">>)>> :
             m1 \in Markers, r \in LeafRefs, m2 \in Markers }
    \cup { <<Open(m), Text(<<"tail">>)>> : m \in Markers }

BindContexts ==
    { [payload |-> p, session |-> s, state |-> st, template_params |-> tp] :
        p \in {ValueNull, UserName(ValueNull), UserName(Str("Pay"))},
        s \in {ValueObject(MapNew), SessionAda, UserName(ValueNull)},
        st \in {ValueNull, StateBob},
        tp \in {ValueObject(MapNew), UserName(Str("Tpl"))} }

NodeIds == {None, Some(<<"n1">>), Some(<<"n2">>)}
CardInstanceIds == {<<"c1">>, <<"c2">>}
StateDocs == {ValueNull, StateBob, ValueObject(MapNew), ValueNumber(5)}
ValidationModes == {"Off", "Warn", "Error"}
InvocationModes == {"Render", "Validate", "RenderAndValidate"}
CardSpecs ==
    {None, Some(CardPlain), Some(CardNoVersion), Some(CardBound), Some(CardMixed),
     Some(CardRich)}

\* Every way to derive a key: node ids and card instance ids, state absent or supplied.
KeyedInvocations ==
    { AdaptiveCardInvocation(n, s, Some(CardPlain),
          Some(CardInteraction(t, <<"a1">>, c, InputsAda, ValueNull, None)),
          "Warn", "RenderAndValidate") :
        n \in NodeIds, c \in CardInstanceIds, t \in {"Submit", "ShowCard"},
        s \in {ValueNull, StateBob} }

\* Every interaction type on every kind of state document, with and without metadata.
TypedInvocations ==
    { AdaptiveCardInvocation(None, s, Some(CardPlain),
          Some(CardInteraction(t, <<"a1">>, <<"c1">>, InputsAda, m, None)),
          "Warn", "RenderAndValidate") :
        s \in StateDocs, t \in InteractionTypes, m \in {ValueNull, MetaFull, MetaOdd} }

\* Raw inputs of every JSON type: an object, null, strings that do not parse
\* as JSON ("x") and that do ("7", "{}", "null", "\"x\""), a number, a
\* boolean and an array.
RawInputs ==
    {ValueNull, InputsTier, Obj2(<<"name">>, Str("Eve"), <<"tier">>, Str("free")),
     Str("x"), ValueNumber(7), ValueBool(TRUE),
     ValueArray(<<Str("x")>>), Str("7"), ValueString(<<"{", "}">>), Str("null"),
     ValueString(<<"\"", "x", "\"">>)}

\* Other raw inputs and other action ids, one of them with a dot in it.
InputInvocations ==
    { AdaptiveCardInvocation(None, ValueNull, Some(CardPlain),
          Some(CardInteraction(t, a, <<"c1">>, r, ValueNull, None)),
          "Warn", "RenderAndValidate") :
        t \in {"Execute", "ToggleVisibility"},
        a \in {<<"a2">>, <<"a">>, <<"a", ".", "b">>},
        r \in RawInputs }

\* Interactions with an empty or blank action id or card instance id.
RejectedInvocations ==
    { AdaptiveCardInvocation(n, s, Some(CardPlain),
          Some(CardInteraction(t, a, c, InputsAda, ValueNull, None)),
          "Warn", "RenderAndValidate") :
        n \in {None, Some(<<"n1">>)}, s \in {ValueNull, StateBob},
        t \in {"Submit", "ShowCard"},
        a \in {<<>>, <<" ">>, <<"a1">>}, c \in {<<>>, <<"c1">>} }
    \ KeyedInvocations

\* Interactions on cards that fail to render or carry validation issues.
CardInvocations ==
    { AdaptiveCardInvocation(None, s, c,
          Some(CardInteraction(t, <<"a1">>, <<"c1">>, InputsAda, ValueNull, None)),
          v, "RenderAndValidate") :
        s \in {ValueNull, StateBob}, c \in CardSpecs \ {Some(CardPlain)},
        t \in {"Submit", "OpenUrl"}, v \in {"Warn", "Error"} }

\* Invocations of a card with one bound text that the session, the stored
\* state or nothing resolves.
BoundInvocations(interactions) ==
    { [AdaptiveCardInvocation(None, ValueNull,
           Some(Card(Some(Str("1.6")),
                     <<TextBlock(<<"Hello">>), TextBlock(TextOf(segs))>>)),
           i, "Warn", "RenderAndValidate") EXCEPT !.session = ss] :
        ss \in {ValueNull, SessionAda}, i \in interactions, segs \in BoundLeaves }

InteractionInvocations ==
    KeyedInvocations \cup TypedInvocations \cup InputInvocations
    \cup RejectedInvocations \cup CardInvocations
    \cup BoundInvocations({Some(Submit(<<"a1">>, <<"c1">>, InputsAda)),
                          Some(Submit(<<>>, <<"c1">>, InputsAda))})

\* Invocations the backend fails on.
FaultedInvocations ==
    { AdaptiveCardInvocation(n, s, Some(CardPlain), Some(Submit(a, <<"c1">>, InputsAda)),
          "Warn", "RenderAndValidate") :
        n \in {None, Some(<<"n1">>)}, s \in {ValueNull, StateBob},
        a \in {<<>>, <<"a1">>} }

\* Invocations without an interaction, or with a disabled one.
RenderInvocations ==
    { AdaptiveCardInvocation(n, s, c, None, v, "RenderAndValidate") :
        n \in {None, Some(<<"n1">>)}, s \in {ValueNull, StateBob}, c \in CardSpecs,
        v \in {"Warn", "Error"} }
    \cup
    { AdaptiveCardInvocation(None, ValueNull, Some(CardNoVersion), None, v, m) :
        v \in ValidationModes, m \in InvocationModes }
    \cup
    { AdaptiveCardInvocation(n, ValueNull, Some(c),
          Some(CardInteraction("Submit", a, <<"c1">>, InputsAda, m, Some(FALSE))),
          v, "RenderAndValidate") :
        n \in {None, Some(<<"n1">>)}, c \in {CardPlain, CardNoVersion},
        a \in {<<>>, <<"a1">>}, v \in {"Warn", "Error"}, m \in {ValueNull, MetaFull} }
    \cup BoundInvocations({None})

Faults == {"read", "write"}

----------------------------------------------------------------------------
(* One caller: invocations one after the other on the State Backend *)

Idle == [phase |-> "idle"]
NoContext == [payload |-> ValueNull, session |-> ValueNull, state |-> ValueNull,
              template_params |-> ValueObject(MapNew)]
NoBinding == [kind |-> "none"]
NoReport == [kind |-> "none"]
NoFiles == [kind |-> "none"]
NoFetch == [kind |-> "none"]
MaxProcs == 2
Procs == 1..MaxProcs
ProcIdle == [pc |-> "idle"]

Init ==
    /\ store = MapNew
    /\ last = Idle
    /\ invocations = 0
    /\ doc = ValueNull /\ op = NoOp /\ applied = 0
    /\ proc = [p \in Procs |-> ProcIdle] /\ cstore = MapNew /\ writes = <<>>
    /\ scope = NoContext /\ binding = NoBinding
    /\ subject = ValueNull /\ report = NoReport /\ files = NoFiles /\ fetched = NoFetch

\* handle_invocation, whole: the backend and the result it leaves.
Invoke(inv, fault) ==
    /\ last = Idle
    /\ invocations < MaxInvocations
    /\ LET return(out) ==
               /\ store' = out.store
               /\ last' = [phase |-> "done", inv |-> inv, fault |-> fault,
                           before |-> store, result |-> out.result, ops |-> out.ops,
                           state |-> out.state]
       IN  return(handle_invocation(inv, store, fault))
    /\ invocations' = invocations + 1
    /\ UNCHANGED <<doc, op, applied, proc, cstore, writes, scope, binding,
                 subject, report, files, fetched>>

Render == \E inv \in RenderInvocations : Invoke(inv, "none")

Interact == \E inv \in InteractionInvocations : Invoke(inv, "none")

\* An invocation during which the backend fails.
InvokeFaulted == \E inv \in FaultedInvocations, fault \in Faults : Invoke(inv, fault)

\* handle_message hands the result to the host; the next invocation may start.
Deliver ==
    /\ last # Idle
    /\ last' = Idle
    /\ UNCHANGED <<store, invocations, doc, op, applied, proc, cstore, writes, scope, binding,
                 subject, report, files, fetched>>

Next == Render \/ Interact \/ InvokeFaulted \/ Deliver

Spec == Init /\ [][Next]_vars

----------------------------------------------------------------------------
(* The path operators on their own: a document and one update at a time *)

OpsInit ==
    /\ doc \in OpDocs /\ op = NoOp /\ applied = 0
    /\ store = MapNew /\ last = Idle /\ invocations = 0
    /\ proc = [p \in Procs |-> ProcIdle] /\ cstore = MapNew /\ writes = <<>>
    /\ scope = NoContext /\ binding = NoBinding
    /\ subject = ValueNull /\ report = NoReport /\ files = NoFiles /\ fetched = NoFetch

\* apply_updates on a one-update list: the document before is kept with the
\* update for the properties to refer to, and so is the update applied before
\* this one (without its own history).
Apply(update) ==
    /\ applied < MaxOps
    /\ doc' = apply_updates(doc, <<update>>)
    /\ op' = [kind |-> update.kind, update |-> update, before |-> doc,
              prev |-> IF op = NoOp THEN NoOp
                       ELSE [kind |-> op.kind, update |-> op.update, before |-> op.before]]
    /\ applied' = applied + 1
    /\ UNCHANGED <<store, last, invocations, proc, cstore, writes, scope, binding,
                 subject, report, files, fetched>>

ApplySet == \E update \in {Set(p, v) : p \in OpPaths, v \in OpValues} : Apply(update)
ApplyMerge == \E update \in {Merge(p, v) : p \in OpPaths, v \in OpValues} : Apply(update)
ApplyDelete == \E update \in {Delete(p) : p \in OpPaths} : Apply(update)

OpsNext == ApplySet \/ ApplyMerge \/ ApplyDelete

SpecOps == OpsInit /\ [][OpsNext]_vars

----------------------------------------------------------------------------
(* Several callers: invocations whose backend operations interleave.  Each
   read_bytes and write_state is one step on the backend (one lock, one host
   call); what an invocation does between them is local to it. *)

\* Interactions on one card instance, on another, and on a node; state absent
\* (so the backend is read) or supplied.
ConcurrentInvocations ==
    { AdaptiveCardInvocation(None, ValueNull, Some(CardPlain),
          Some(CardInteraction(t, <<"a1">>, <<"c1">>, InputsAda, ValueNull, None)),
          "Warn", "RenderAndValidate") : t \in {"Submit", "ToggleVisibility", "ShowCard"} }
    \cup
    { AdaptiveCardInvocation(None, ValueNull, Some(CardPlain),
          Some(CardInteraction("ToggleVisibility", <<"a1">>, <<"c2">>, InputsAda,
                               ValueNull, None)),
          "Warn", "RenderAndValidate"),
      AdaptiveCardInvocation(Some(<<"n1">>), ValueNull, Some(CardPlain),
          Some(CardInteraction("Submit", <<"a1">>, <<"c1">>, InputsTier, ValueNull, None)),
          "Warn", "RenderAndValidate"),
      AdaptiveCardInvocation(None, ValueObject(MapNew), Some(CardBound),
          Some(CardInteraction("OpenUrl", <<"a1">>, <<"c1">>, ValueNull, ValueNull, None)),
          "Warn", "RenderAndValidate") }

\* What the backend holds when the callers start: documents that earlier
\* Submit interactions left under a card key and a node key.
SeedStore ==
    map_insert(map_insert(MapNew,
        <<"adaptive-card:card:", "c1">>, to_vec(StateBob)),
        <<"adaptive-card:node:", "n2">>, to_vec(Obj1(<<"form_data">>, InputsTier)))

ConcInit ==
    /\ proc = [p \in Procs |-> ProcIdle] /\ cstore = SeedStore /\ writes = <<>>
    /\ store = MapNew /\ last = Idle /\ invocations = 0
    /\ doc = ValueNull /\ op = NoOp /\ applied = 0
    /\ scope = NoContext /\ binding = NoBinding
    /\ subject = ValueNull /\ report = NoReport /\ files = NoFiles /\ fetched = NoFetch

ProcDone(result) == [pc |-> "done", result |-> result]

\* handle_invocation up to its call of handle_interaction, and the checks at
\* the head of handle_interaction: one backend read at most.
Start(p) ==
    \E inv \in ConcurrentInvocations :
        /\ proc[p].pc = "idle"
        /\ LET loaded == load_state_if_missing(inv, None, cstore, "none")
               invocation == drop_disabled(loaded.inv)
               checked == check_interaction(invocation)
               dispatch(rendered) ==
                   IF ~loaded.res.ok THEN ProcDone(loaded.res)
                   ELSE IF ~invocation.interaction.some THEN ProcDone(rendered)
                   ELSE IF ~checked.ok THEN ProcDone(checked)
                   ELSE [pc |-> "load", inv |-> inv, invocation |-> invocation,
                         interaction |-> checked.v]
           IN  proc' = [proc EXCEPT ![p] = dispatch(render_outcome(invocation))]
        /\ UNCHANGED <<cstore, writes, store, last, invocations, doc, op, applied, scope, binding,
                 subject, report, files, fetched>>

\* handle_interaction from its load to the document it will persist: one
\* backend read at most, then the render and the update intents.
Load(p) ==
    /\ proc[p].pc = "load"
    /\ LET loaded == load_state_if_missing(proc[p].invocation, Some(proc[p].interaction),
                                           cstore, "none")
           render(outcome) ==
               IF ~loaded.res.ok THEN ProcDone(loaded.res)
               ELSE IF ~outcome.ok THEN ProcDone(outcome)
               ELSE [pc |-> "persist", inv |-> proc[p].inv, invocation |-> loaded.inv,
                     interaction |-> proc[p].interaction, outcome |-> outcome.v]
       IN  proc' = [proc EXCEPT ![p] =
                        render(interaction_outcome(loaded.inv, proc[p].interaction))]
    /\ UNCHANGED <<cstore, writes, store, last, invocations, doc, op, applied, scope, binding,
                 subject, report, files, fetched>>

\* persist_state: the one backend write, and the return.  The log keeps who
\* wrote under which key, from which state document and with which interaction.
Persist(p) ==
    /\ proc[p].pc = "persist"
    /\ LET return(persisted) ==
               /\ cstore' = persisted.store
               /\ writes' = Append(writes, [proc |-> p, key |-> persisted.ops[1].key,
                                            base |-> proc[p].invocation.state,
                                            interaction |-> proc[p].interaction])
               /\ proc' = [proc EXCEPT ![p] =
                              ProcDone(IF persisted.res.ok THEN Ok(proc[p].outcome.result)
                                       ELSE persisted.res)]
       IN  return(persist_state(proc[p].invocation, Some(proc[p].interaction),
                                proc[p].outcome.persisted_state, cstore, "none"))
    /\ UNCHANGED <<store, last, invocations, doc, op, applied, scope, binding,
                 subject, report, files, fetched>>

ConcNext == \E p \in Procs : Start(p) \/ Load(p) \/ Persist(p)

SpecConc == ConcInit /\ [][ConcNext]_vars

----------------------------------------------------------------------------
(* The binding pass on its own: a binding context, and one call on it, of
   lookup or of apply_bindings on a string leaf *)

BindInit ==
    /\ scope \in BindContexts /\ binding = NoBinding
    /\ subject = ValueNull /\ report = NoReport /\ files = NoFiles /\ fetched = NoFetch
    /\ store = MapNew /\ last = Idle /\ invocations = 0
    /\ doc = ValueNull /\ op = NoOp /\ applied = 0
    /\ proc = [p \in Procs |-> ProcIdle] /\ cstore = MapNew /\ writes = <<>>

\* BindingContext::lookup of the text of a reference.
Lookup ==
    \E call \in {[ref |-> r, spaced |-> b] : r \in LookupRefs, b \in BOOLEAN} :
        /\ binding = NoBinding
        /\ binding' = [kind |-> "lookup", ref |-> call.ref, spaced |-> call.spaced,
                       result |-> lookup(scope, RefText(call.ref, call.spaced))]
        /\ UNCHANGED <<scope, store, last, invocations, doc, op, applied, proc, cstore,
                       writes, subject, report, files, fetched>>

\* apply_bindings on a string leaf.
Bind ==
    \E segs \in LeafSegments :
        /\ binding = NoBinding
        /\ binding' = [kind |-> "bind", segs |-> segs,
                       result |-> apply_bindings(ValueString(TextOf(segs)), scope)]
        /\ UNCHANGED <<scope, store, last, invocations, doc, op, applied, proc, cstore,
                       writes, subject, report, files, fetched>>

BindNext == Lookup \/ Bind

SpecBind == BindInit /\ [][BindNext]_vars

----------------------------------------------------------------------------
(* validate_card on its own: a card, and the issues the walk reports for it *)

Kind(a, b) == ValueString(<<a, ".", b>>)

\* What a card may hold under targetElements: nothing, values that are not
\* arrays, the empty array and arrays with one and two targets.
Targets ==
    {None, Some(ValueNull), Some(Str("x")), Some(ValueNumber(0)),
     Some(ValueObject(MapNew)), Some(ValueArray(<<>>)),
     Some(ValueArray(<<Str("t")>>)),
     Some(ValueArray(<<Obj1(<<"elementId">>, Str("t")), Str("u")>>))}

With(map, key, o) == IF o.some THEN map_insert(map, key, o.v) ELSE map

ToggleAction(target) ==
    ValueObject(With(map_insert(MapNew, <<"type">>, Kind("Action", "ToggleVisibility")),
                     <<"targetElements">>, target))

InputText(id) ==
    ValueObject(With(map_insert(MapNew, <<"type">>, Kind("Input", "Text")), <<"id">>, id))

ActionSet(actions) == Obj2(<<"type">>, Str("ActionSet"), <<"actions">>, ValueArray(actions))

\* The values under "body": none, one that is not an array, and arrays of
\* elements with and without issues, with actions nested in them.
Bodies ==
    {None, Some(Str("x")), Some(ValueArray(<<>>)),
     Some(ValueArray(<<TextBlock(<<"Hello">>)>>)),
     Some(ValueArray(<<InputText(None)>>)),
     Some(ValueArray(<<InputText(Some(Str("n"))), InputText(Some(Str("n")))>>)),
     Some(ValueArray(<<Obj2(<<"type">>, Kind("Input", "Toggle"), <<"id">>, Str("n"))>>))}
    \cup {Some(ValueArray(<<TextBlock(<<"Hello">>), ActionSet(<<ToggleAction(t)>>)>>)) :
            t \in Targets}

\* The values under "actions".
ActionLists ==
    {None, Some(ValueNull)}
    \cup {Some(ValueArray(<<ToggleAction(t)>>)) : t \in Targets}
    \cup {Some(ValueArray(<<Obj2(<<"type">>, Kind("Action", "OpenUrl"), <<"id">>, Str("a")),
                            ToggleAction(t)>>)) : t \in {None, Some(ValueArray(<<Str("t")>>))}}

RootTypes ==
    {None, Some(Str("AdaptiveCard")), Some(Kind("Action", "ToggleVisibility")),
     Some(Kind("Input", "Toggle")), Some(Str("Media"))}

RootCard(type, version, body, actions) ==
    ValueObject(With(With(With(With(MapNew, <<"type">>, type), <<"version">>, version),
                          <<"body">>, body), <<"actions">>, actions))

ValidatedCards ==
    {RootCard(type, version, body, actions) :
        type \in RootTypes, version \in {None, Some(Str("1.6"))},
        body \in Bodies, actions \in ActionLists}
    \cup {ValueNull, ValueNumber(1), Str("card"), ValueArray(<<ToggleAction(None)>>)}

ValidateInit ==
    /\ subject \in ValidatedCards /\ report = NoReport
    /\ store = MapNew /\ last = Idle /\ invocations = 0
    /\ doc = ValueNull /\ op = NoOp /\ applied = 0
    /\ proc = [p \in Procs |-> ProcIdle] /\ cstore = MapNew /\ writes = <<>>
    /\ scope = NoContext /\ binding = NoBinding
    /\ files = NoFiles /\ fetched = NoFetch

\* validate_card on the card.
Validate ==
    /\ report = NoReport
    /\ report' = [kind |-> "issues", issues |-> validate_card(subject)]
    /\ UNCHANGED <<subject, store, last, invocations, doc, op, applied, proc, cstore,
                   writes, scope, binding, files, fetched>>

ValidateNext == Validate

SpecValidate == ValidateInit /\ [][ValidateNext]_vars

----------------------------------------------------------------------------
(* The Asset and Catalog sources on their own: an environment, and one
   resolve_card on it *)

Welcome == <<"welcome">>
InCards == <<"cards", "/", "w", ".json">>
InEnv == <<"env", "/", "w", ".json">>
InCatalog == <<"cat", "/", "w", ".json">>
AtHost == <<"host", "/", "w", ".json">>
InDir == <<"dir", "/", "welcome">>

\* The paths a file may be at: every candidate of the card specs below, and
\* the path the host resolver gives.
FilePaths ==
    {InCards, InEnv, InCatalog, AtHost, InDir, Welcome,
     <<"assets", "/", "welcome">>, <<"assets", "/", "welcome", ".json">>,
     <<"welcome", ".json">>, <<"assets", "/", "welcome", ".json", ".json">>}

MaxFiles == 2

\* At most MaxFiles files that hold a card, at most one that does not parse,
\* and possibly one that cannot be read.
FileSystems ==
    { [fs |-> [p \in good \cup bad |-> IF p \in good THEN <<"{", "}">> ELSE <<"{">>],
       unreadable |-> locked] :
        good \in {s \in SUBSET FilePaths : Cardinality(s) <= MaxFiles},
        bad \in {{}} \cup {{p} : p \in FilePaths},
        locked \in {{}, {InCards}} }

Mapping(name, path) == [k \in {name} |-> path]

AssetEnvs ==
    { [fs |-> f.fs, unreadable |-> f.unreadable, registry |-> r, catalog |-> c,
       base |-> None, host |-> h] :
        f \in FileSystems,
        r \in {Ok(None), Ok(Some(Mapping(Welcome, InEnv))), Err("Io")},
        c \in {Ok(None), Ok(Some(Mapping(Welcome, InCatalog)))},
        h \in {Ok(MapNew), Ok(Mapping(Welcome, AtHost)), Err("Asset")} }

CardSpec(asset_path, catalog_name, asset_registry) ==
    [inline_json |-> None, asset_path |-> asset_path, catalog_name |-> catalog_name,
     asset_registry |-> asset_registry, template_params |-> None]

Registries == {None, Some(Mapping(Welcome, InCards)), Some(Mapping(Welcome, Welcome))}

AssetSpecs ==
    {CardSpec(None, None, None)}
    \cup {CardSpec(Some(p), None, r) : p \in {Welcome, InDir}, r \in Registries}

CatalogSpecs ==
    {CardSpec(None, None, None)}
    \cup {CardSpec(None, Some(n), r) :
            n \in {Welcome, <<"/", "welcome">>, <<"welcome", ".json">>},
            r \in {None, Some(Mapping(Welcome, InCards))}}

AssetInit ==
    /\ files \in AssetEnvs /\ fetched = NoFetch
    /\ store = MapNew /\ last = Idle /\ invocations = 0
    /\ doc = ValueNull /\ op = NoOp /\ applied = 0
    /\ proc = [p \in Procs |-> ProcIdle] /\ cstore = MapNew /\ writes = <<>>
    /\ scope = NoContext /\ binding = NoBinding
    /\ subject = ValueNull /\ report = NoReport

Fetch(source, spec, candidates, located) ==
    /\ fetched = NoFetch
    /\ fetched' = [kind |-> source, spec |-> spec, candidates |-> candidates,
                   res |-> located.res, log |-> located.log]
    /\ UNCHANGED <<files, store, last, invocations, doc, op, applied, proc, cstore,
                   writes, scope, binding, subject, report>>

\* resolve_card of an Asset source.
ResolveAsset ==
    \E spec \in AssetSpecs :
        Fetch("Asset", spec,
              IF spec.asset_path.some
              THEN candidate_asset_paths(spec.asset_path.v, spec.asset_registry, files)
              ELSE Err("InvalidInput"),
              resolve_asset(spec, files))

\* resolve_card of a Catalog source.
ResolveCatalog ==
    \E spec \in CatalogSpecs :
        Fetch("Catalog", spec,
              IF spec.catalog_name.some
              THEN candidate_catalog_paths(trim_start_matches(spec.catalog_name.v, "/"),
                                           spec, files)
              ELSE Err("InvalidInput"),
              resolve_catalog(spec, files))

AssetNext == ResolveAsset \/ ResolveCatalog

SpecAssets == AssetInit /\ [][AssetNext]_vars

----------------------------------------------------------------------------
(* Properties of one caller's invocations *)

Done == last.phase = "done"
Failed == Done /\ ~last.result.ok
Succeeded == Done /\ last.result.ok

\* The interaction the invocation carries, a disabled one included.
Carried == last.inv.interaction

\* The interaction the invocation acts on: none when it is disabled.
Acted == drop_disabled(last.inv).interaction

\* The key the invocation derives, first match wins: node, card, default.
DerivedKey ==
    IF last.inv.node_id.some THEN <<"adaptive-card:node:">> \o last.inv.node_id.v
    ELSE IF Acted.some THEN <<"adaptive-card:card:">> \o Acted.v.card_instance_id
    ELSE <<"adaptive-card:default">>

\* The state document the invocation starts from: the supplied one, else the
\* one stored under its key, else the empty object.
EffectiveState ==
    IF ~is_null(last.inv.state) THEN last.inv.state
    ELSE IF DerivedKey \in DOMAIN last.before THEN from_slice(last.before[DerivedKey])
    ELSE ValueObject(MapNew)

IsBlank(s) == trim(s) = <<>>

\* The value a path leads to through members of objects only: nothing when a
\* segment is missing or is asked of something that is not an object.
RECURSIVE ValueAt(_, _)
ValueAt(value, parts) ==
    IF parts = <<>> THEN Some(value)
    ELSE IF is_object(value) /\ Head(parts) \in DOMAIN value.m
    THEN ValueAt(value.m[Head(parts)], Tail(parts))
    ELSE None

\* The members of the object a path leads to; none when it leads to no object.
MembersAt(value, parts) ==
    IF ValueAt(value, parts).some /\ is_object(ValueAt(value, parts).v)
    THEN ValueAt(value, parts).v.m
    ELSE MapNew

\* The shallow key union of two maps in which the second wins on shared keys.
Union(m1, m2) ==
    [k \in (DOMAIN m1) \cup (DOMAIN m2) |-> IF k \in DOMAIN m2 THEN m2[k] ELSE m1[k]]

\* C1: an invocation that returns an error leaves the State Backend as it
\* was: the same keys and documents, and no write or delete was issued before
\* the failure (the only write in its log is the one that failed).
C1_ErrorLeavesStoreUnchanged ==
    Failed =>
        /\ store = last.before
        /\ \A i \in 1..Len(last.ops) :
              last.ops[i].op # "read" =>
                  i = Len(last.ops) /\ last.fault = "write"
                  /\ last.result.err = "StateStore"

\* C1 witness: a render failure of an interaction invocation, after its
\* reads, on a backend that holds documents.
C1_Witness ==
    /\ Failed /\ last.result.err = "Binding" /\ Acted.some
    /\ last.before # MapNew /\ last.ops # <<>>

\* C1 witness of the failing write.
C1_WitnessWriteFails ==
    Failed /\ last.result.err = "StateStore" /\ last.fault = "write"
    /\ last.before # MapNew

\* C2, as stated: an invocation that carries an interaction with an empty
\* action id or card instance id fails with an invalid-interaction error.
C2_EmptyIdsRejected ==
    Done /\ Carried.some
         /\ (Carried.v.action_id = <<>> \/ Carried.v.card_instance_id = <<>>)
      => Failed /\ last.result.err = "InteractionInvalid" /\ store = last.before

\* C2, amended: an invocation that carries an interaction which is not
\* disabled and whose action id or card instance id is empty or blank fails,
\* with an invalid-interaction error unless the state load failed first with
\* a state-store error; it returns no result (no card, event or update
\* intents) and performs no write or delete.
C2_EnabledEmptyIdsRejected ==
    Done /\ Acted.some
         /\ (IsBlank(Acted.v.action_id) \/ IsBlank(Acted.v.card_instance_id))
      => /\ Failed
         /\ last.result.err = (IF last.fault = "read" /\ is_null(last.inv.state)
                               THEN "StateStore" ELSE "InteractionInvalid")
         /\ store = last.before
         /\ \A i \in 1..Len(last.ops) : last.ops[i].op = "read"

\* C2 witness: a rejected interaction on a backend that holds a document
\* under the key the interaction would have written.
C2_Witness ==
    /\ Failed /\ last.result.err = "InteractionInvalid"
    /\ Acted.some /\ Acted.v.action_id = <<>> /\ ~IsBlank(Acted.v.card_instance_id)
    /\ DerivedKey \in DOMAIN last.before

\* C3: every document the State Backend holds is a JSON object.
C3_StoredDocumentsAreObjects ==
    \A k \in DOMAIN store : is_object(from_slice(store[k]))

\* C4: after a successful interaction invocation the document under the
\* derived key is the returned state_updates applied, in order and all of
\* them, to the effective state document.
C4_StoredIsUpdatesApplied ==
    Succeeded /\ Acted.some =>
        /\ DerivedKey \in DOMAIN store
        /\ from_slice(store[DerivedKey])
             = apply_updates(EffectiveState, last.result.v.state_updates)

\* C4 witness: a successful interaction with a non-empty update list whose
\* state document was loaded from the backend.
C4_Witness ==
    /\ Succeeded /\ Acted.some /\ last.result.v.state_updates # <<>>
    /\ is_null(last.inv.state) /\ DerivedKey \in DOMAIN last.before
    /\ store[DerivedKey] # last.before[DerivedKey]

\* The document stored under the invocation's own key before it ran, if any.
OwnDocument ==
    IF DerivedKey \in DOMAIN last.before THEN from_slice(last.before[DerivedKey])
    ELSE ValueNull

\* C5: an invocation changes no entry other than the one under its derived
\* key, and with an absent state document it works with the document stored
\* under its own key or with none: never with one stored under another key.
C5_NoLeakAcrossKeys ==
    Done =>
        /\ \A k \in (DOMAIN store) \cup (DOMAIN last.before) :
              k # DerivedKey =>
                  k \in DOMAIN store /\ k \in DOMAIN last.before
                  /\ store[k] = last.before[k]
        /\ is_null(last.inv.state) =>
              /\ last.state \in {ValueNull, OwnDocument}
              /\ Succeeded /\ last.result.v.rendered_card.some =>
                    last.result.v.rendered_card.v
                      = render_card([drop_disabled(last.inv) EXCEPT
                                        !.state = OwnDocument]).v.card

\* C5 witness: an invocation with an absent state renders successfully on a
\* key that holds nothing while another key holds a non-empty document.
C5_Witness ==
    /\ Succeeded /\ is_null(last.inv.state) /\ last.result.v.rendered_card.some
    /\ DerivedKey \notin DOMAIN last.before
    /\ \E k \in DOMAIN last.before :
          from_slice(last.before[k]) # ValueObject(MapNew)
    /\ is_null(last.state)

\* C6, as stated: every backend read and write of one invocation uses the
\* invocation's derived key.
C6_OneKeyPerInvocation ==
    Done => \A i \in 1..Len(last.ops) : last.ops[i].key = DerivedKey

\* C7: with a supplied state document the backend is not read, the supplied
\* document is the one the invocation works with and the base of what it
\* persists; a stored document replaces the state only when it is absent.
C7_SuppliedStateWins ==
    Done =>
        /\ ~is_null(last.inv.state) =>
              /\ \A i \in 1..Len(last.ops) : last.ops[i].op # "read"
              /\ last.state = last.inv.state
              /\ Succeeded /\ Acted.some =>
                    from_slice(store[DerivedKey])
                      = apply_updates(last.inv.state, last.result.v.state_updates)
        /\ last.state # last.inv.state => is_null(last.inv.state)

\* C7 witness: a supplied state on a key that holds a different document.
C7_Witness ==
    /\ Succeeded /\ Acted.some /\ ~is_null(last.inv.state)
    /\ DerivedKey \in DOMAIN last.before
    /\ from_slice(last.before[DerivedKey]) # last.inv.state
    /\ last.result.v.state_updates # <<>>

\* The render of the invocation as it ran: with the state it worked with.
Rendered == render_card([drop_disabled(last.inv) EXCEPT !.state = last.state])

\* C8, as stated: in Error mode a rendered card with validation issues makes
\* the invocation fail with a card-validation failure and nothing is
\* persisted, with or without an interaction; in Warn mode the same card
\* gives a successful result carrying the card and the issues.
C8_ErrorModeEscalates ==
    Done /\ last.fault = "none" /\ Rendered.ok /\ Rendered.v.validation_issues # <<>>
         /\ ~(Acted.some /\ ~check_interaction(drop_disabled(last.inv)).ok)
      => /\ last.inv.validation_mode = "Error" =>
               Failed /\ last.result.err = "CardValidation" /\ store = last.before
         /\ last.inv.validation_mode = "Warn" /\ last.inv.mode # "Validate" =>
               /\ Succeeded
               /\ last.result.v.rendered_card = Some(Rendered.v.card)
               /\ last.result.v.validation_issues = Rendered.v.validation_issues

\* A successful invocation that acted on an interaction of one of the types.
SucceededAs(types) ==
    Succeeded /\ Acted.some /\ Acted.v.interaction_type \in types

\* C13: a successful Submit or Execute interaction returns exactly one state
\* update, Merge at form_data of the normalized inputs, and an action event
\* with the interaction's action_id and the same normalized inputs.
C13_SubmitMergesFormData ==
    SucceededAs({"Submit", "Execute"}) =>
        /\ last.result.v.state_updates
             = <<Merge(<<"form_data">>, normalize_inputs(Acted.v.raw_inputs))>>
        /\ last.result.v.event.some
        /\ last.result.v.event.v.action_id = Acted.v.action_id
        /\ last.result.v.event.v.inputs = normalize_inputs(Acted.v.raw_inputs)

\* C13 witness: an Execute whose raw inputs are a number, so that the
\* normalized inputs differ from the raw ones, returned in the Merge.
C13_Witness ==
    /\ SucceededAs({"Execute"}) /\ Acted.v.raw_inputs = ValueNumber(7)
    /\ last.result.v.state_updates
         = <<Merge(<<"form_data">>, Obj1(<<"value">>, ValueNumber(7)))>>
    /\ last.result.v.event.v.inputs = Obj1(<<"value">>, ValueNumber(7))

\* The value a ToggleVisibility writes: metadata.visible when it is a
\* boolean, true otherwise.
Visible(interaction) ==
    IF value_get(interaction.metadata, <<"visible">>).some
       /\ value_get(interaction.metadata, <<"visible">>).v.t = "bool"
    THEN value_get(interaction.metadata, <<"visible">>).v
    ELSE ValueBool(TRUE)

VisibilityPath(interaction) == <<"ui", ".", "visibility", ".">> \o interaction.action_id

\* C14: a successful ToggleVisibility interaction returns exactly one state
\* update, Set at ui.visibility.<action_id> of metadata.visible when that is
\* a boolean and of true otherwise, and the document stored afterwards holds
\* that boolean at that path.
C14_ToggleSetsVisibility ==
    SucceededAs({"ToggleVisibility"}) =>
        /\ last.result.v.state_updates = <<Set(VisibilityPath(Acted.v), Visible(Acted.v))>>
        /\ DerivedKey \in DOMAIN store
        /\ lookup_in(from_slice(store[DerivedKey]), split(VisibilityPath(Acted.v)))
             = Some(Visible(Acted.v))

\* C14 witness: visible = false stored in a document that held other members.
C14_Witness ==
    /\ SucceededAs({"ToggleVisibility"})
    /\ value_get(Acted.v.metadata, <<"visible">>) = Some(ValueBool(FALSE))
    /\ lookup_in(from_slice(store[DerivedKey]), split(VisibilityPath(Acted.v)))
         = Some(ValueBool(FALSE))
    /\ lookup_in(from_slice(store[DerivedKey]), <<<<"form_data">>>>).some

\* C14 witness of the default: visible is not a boolean, true is stored.
C14_WitnessDefault ==
    /\ SucceededAs({"ToggleVisibility"})
    /\ value_get(Acted.v.metadata, <<"visible">>) = Some(Str("no"))
    /\ lookup_in(from_slice(store[DerivedKey]), split(VisibilityPath(Acted.v)))
         = Some(ValueBool(TRUE))

\* The subcard id a ShowCard resolves: metadata subcardId, else the action id.
ResolvedSubcard(interaction) ==
    IF as_str(value_get(interaction.metadata, <<"subcardId">>)).some
    THEN as_str(value_get(interaction.metadata, <<"subcardId">>)).v
    ELSE interaction.action_id

\* C15, as stated: for a successful ShowCard the resolved subcard id is the
\* value Set at ui.active_show_card.<card_instance_id> and the subcard id of
\* the returned action event.
C15_SubcardSetAndCarried ==
    SucceededAs({"ShowCard"}) =>
        /\ last.result.v.state_updates
             = <<Set(<<"ui", ".", "active_show_card", ".">> \o Acted.v.card_instance_id,
                     ValueString(ResolvedSubcard(Acted.v)))>>
        /\ last.result.v.event.some
        /\ last.result.v.event.v.subcard_id = Some(ResolvedSubcard(Acted.v))

\* C16, as stated: a successful OpenUrl returns no state update and leaves
\* the State Backend with the keys and documents it had.
C16_OpenUrlLeavesStore ==
    SucceededAs({"OpenUrl"}) =>
        /\ last.result.v.state_updates = <<>>
        /\ store = last.before

\* C16, amended: a successful OpenUrl returns no state update; it writes the
\* state document it worked with (the supplied one, else the stored one, else
\* the empty object), unchanged, under its derived key, and no other key
\* changes.
C16_OpenUrlPersistsStateAsIs ==
    SucceededAs({"OpenUrl"}) =>
        /\ last.result.v.state_updates = <<>>
        /\ store = map_insert(last.before, DerivedKey, to_vec(EffectiveState))
        /\ last.ops[Len(last.ops)] = BackendOp("write", DerivedKey)

\* C16 witness: an OpenUrl with a supplied state on a backend that holds
\* another document under its key; the supplied one is stored.
C16_Witness ==
    /\ SucceededAs({"OpenUrl"}) /\ ~is_null(last.inv.state)
    /\ DerivedKey \in DOMAIN last.before
    /\ from_slice(last.before[DerivedKey]) # last.inv.state
    /\ from_slice(store[DerivedKey]) = last.inv.state

\* C16 witness of the loaded state: the stored document is written back.
C16_WitnessLoaded ==
    /\ SucceededAs({"OpenUrl"}) /\ is_null(last.inv.state)
    /\ DerivedKey \in DOMAIN last.before /\ store = last.before

\* The backend operations of the invocation, by kind.
OpsOf(kinds) == {i \in 1..Len(last.ops) : last.ops[i].op \in kinds}

\* C23: during one invocation the state document is read from the State
\* Backend at most once and written or deleted at most once, and the write
\* is the last backend operation of the invocation.
C23_ReadOnceWriteOnce ==
    Done =>
        /\ Cardinality(OpsOf({"read"})) <= 1
        /\ Cardinality(OpsOf({"write", "delete"})) <= 1
        /\ \A i \in OpsOf({"write", "delete"}) : i = Len(last.ops)

\* The value of the Merge at form_data among the returned state updates.
MergedInputs ==
    {last.result.v.state_updates[i].value :
        i \in {j \in 1..Len(last.result.v.state_updates) :
                 /\ last.result.v.state_updates[j].kind = "Merge"
                 /\ last.result.v.state_updates[j].path = <<"form_data">>}}

\* The value is the normalized form of the raw inputs: the object itself,
\* the empty object for null, else an object that the raw value parses to
\* or that holds the raw value.
NormalizedFrom(raw, value) ==
    /\ is_object(value)
    /\ is_object(raw) => value = raw
    /\ is_null(raw) => value = ValueObject(MapNew)
    /\ ~is_object(raw) /\ ~is_null(raw) =>
          \/ raw.t = "str" /\ from_str(raw.s) = Some(value)
          \/ \E k \in DOMAIN value.m : value.m[k] = raw

\* C24: for every raw inputs value the normalized inputs used in the Merge at
\* form_data and in the action event are a JSON object: an object passes
\* through, null becomes the empty object, every other value ends up as or
\* inside an object.
C24_InputsNormalizedToObject ==
    SucceededAs(InteractionTypes) =>
        /\ NormalizedFrom(Acted.v.raw_inputs, last.result.v.event.v.inputs)
        /\ \A value \in MergedInputs : NormalizedFrom(Acted.v.raw_inputs, value)

\* A successful Submit or Execute with object raw inputs and no state
\* document, on a key that holds nothing or an object: one more step of a
\* sequence of such submissions on that key.
Submitted ==
    /\ SucceededAs({"Submit", "Execute"})
    /\ is_object(Acted.v.raw_inputs) /\ is_null(last.inv.state)
    /\ DerivedKey \in DOMAIN last.before => is_object(from_slice(last.before[DerivedKey]))

\* The members of form_data in the document under the key of the invocation.
FormData(st) ==
    IF DerivedKey \in DOMAIN st
    THEN MembersAt(from_slice(st[DerivedKey]), <<<<"form_data">>>>)
    ELSE MapNew

\* C27: over a sequence of successful Submit or Execute interactions on one
\* state key, each with object raw inputs and no state document, the stored
\* form_data is the key union of all submitted inputs, the later submission
\* winning on shared keys: each submission leaves under the key an object
\* whose form_data is the form_data it found there united with its inputs.
C27_SubmissionsAccumulate ==
    Submitted =>
        /\ DerivedKey \in DOMAIN store
        /\ is_object(from_slice(store[DerivedKey]))
        /\ ValueAt(from_slice(store[DerivedKey]), <<<<"form_data">>>>)
             = Some(ValueObject(Union(FormData(last.before), Acted.v.raw_inputs.m)))

\* C27 witness: a submission of name and tier on a key where an earlier
\* submission left another name: the later name wins and the tier is added.
C27_Witness ==
    /\ Submitted /\ invocations = 2
    /\ FormData(last.before) = InputsAda.m
    /\ Acted.v.raw_inputs = Obj2(<<"name">>, Str("Eve"), <<"tier">>, Str("free"))
    /\ FormData(store) = Acted.v.raw_inputs.m

\* C27 witness: a submission of a tier on a key that holds a name keeps the name.
C27_WitnessKept ==
    /\ Submitted /\ invocations = 2
    /\ FormData(last.before) = InputsAda.m /\ Acted.v.raw_inputs = InputsTier
    /\ FormData(store) = Union(InputsAda.m, InputsTier.m)

\* The invocation carries no interaction or one whose enabled flag is false.
Passive == ~Carried.some \/ Carried.v.enabled = Some(FALSE)

\* C28: an invocation with no interaction, or with one whose enabled flag
\* is false, never writes to or deletes from the State Backend and returns no
\* action event and empty state_updates and session_updates lists; the fields
\* of the disabled interaction are not validated.
C28_RenderOnlyLeavesNoTrace ==
    Done /\ Passive =>
        /\ store = last.before
        /\ \A i \in 1..Len(last.ops) : last.ops[i].op = "read"
        /\ Succeeded =>
              /\ last.result.v.event = None
              /\ last.result.v.state_updates = <<>>
              /\ last.result.v.session_updates = <<>>
        /\ Failed => last.result.err # "InteractionInvalid"
        /\ Carried.some =>
              last.result
                = handle_invocation([last.inv EXCEPT !.interaction = None],
                                    last.before, last.fault).result

\* C28 witness: a disabled Submit with an empty action id and a route in its
\* metadata, on a backend that holds a document: the card is rendered and
\* nothing else happens.
C28_Witness ==
    /\ Succeeded /\ Carried.some /\ Passive
    /\ Carried.v.action_id = <<>> /\ Carried.v.metadata = MetaFull
    /\ last.before # MapNew /\ store = last.before
    /\ last.result.v.rendered_card.some /\ last.result.v.event = None

\* C28 witness: an invocation without an interaction.
C28_WitnessNone ==
    /\ Succeeded /\ ~Carried.some /\ last.before # MapNew
    /\ last.result.v.event = None /\ store = last.before

\* The route of an interaction: metadata.route when it is a string.
RouteOf(interaction) ==
    IF /\ is_object(interaction.metadata)
       /\ <<"route">> \in DOMAIN interaction.metadata.m
       /\ interaction.metadata.m[<<"route">>].t = "str"
    THEN Some(interaction.metadata.m[<<"route">>].s)
    ELSE None

\* C29: for every interaction type the returned session_updates list is
\* [SetRoute(r)] when metadata.route is a string r and empty otherwise, and
\* the route of the action event is r in the first case and absent in the
\* second.
C29_RouteSetsSession ==
    SucceededAs(InteractionTypes) =>
        /\ last.result.v.session_updates
             = (IF RouteOf(Acted.v).some
                THEN <<[kind |-> "SetRoute", route |-> RouteOf(Acted.v).v]>> ELSE <<>>)
        /\ last.result.v.event.some
        /\ last.result.v.event.v.route = RouteOf(Acted.v)

\* C29 witnesses: an OpenUrl with the route "next"; a ShowCard whose route
\* is a number; a ToggleVisibility without metadata.
C29_Witness ==
    /\ SucceededAs({"OpenUrl"}) /\ RouteOf(Acted.v) = Some(<<"next">>)
    /\ last.result.v.session_updates = <<[kind |-> "SetRoute", route |-> <<"next">>]>>
    /\ last.result.v.event.v.route = Some(<<"next">>)

C29_WitnessNotString ==
    /\ SucceededAs({"ShowCard"}) /\ Acted.v.metadata = MetaOdd
    /\ last.result.v.session_updates = <<>> /\ last.result.v.event.v.route = None

C29_WitnessNone ==
    /\ SucceededAs({"ToggleVisibility"}) /\ is_null(Acted.v.metadata)
    /\ last.result.v.session_updates = <<>> /\ last.result.v.event.v.route = None

\* The entry of an identifier under ui.<group> in a document.
Entry(document, group, id) == ValueAt(document, <<<<"ui">>, <<group>>>> \o split(id))

\* The document the invocation left under its key.
StoredDocument == from_slice(store[DerivedKey])

ActionIds == {<<"a1">>, <<"a2">>, <<"a">>, <<"a", ".", "b">>}

\* C30: an update for one identifier leaves the value recorded for every
\* other identifier as it was: a ToggleVisibility for an action id keeps the
\* booleans recorded for the other action ids, a ShowCard for a card instance
\* id keeps the subcards recorded for the other card instance ids, identifiers
\* with a dot included.
C30_EntriesIndependent ==
    /\ SucceededAs({"ToggleVisibility"}) =>
          \A id \in ActionIds \ {Acted.v.action_id} :
              LET was == Entry(EffectiveState, "visibility", id)
              IN  was.some /\ was.v.t = "bool" =>
                      Entry(StoredDocument, "visibility", id) = was
    /\ SucceededAs({"ShowCard"}) =>
          \A id \in CardInstanceIds \ {Acted.v.card_instance_id} :
              LET was == Entry(EffectiveState, "active_show_card", id)
              IN  was.some /\ was.v.t = "str" =>
                      Entry(StoredDocument, "active_show_card", id) = was

----------------------------------------------------------------------------
(* Properties of the path operators *)

\* The first n segments of a path.
Prefix(parts, n) == SubSeq(parts, 1, n)

\* C10: after Set(p, v), resolving p segment by segment in the document
\* returns v; every node on the way down, the root included, is an object;
\* where the document before had no object there, the node is a new object
\* holding the next segment only, and where it had one, the object keeps its
\* other members.
C10_SetThenLookup ==
    op.kind = "Set" =>
        LET parts == split(op.update.path)
        IN  /\ lookup_in(doc, parts) = Some(op.update.value)
            /\ \A n \in 0..(Len(parts) - 1) :
                  LET was == lookup_in(op.before, Prefix(parts, n))
                      now == lookup_in(doc, Prefix(parts, n))
                  IN  /\ now.some /\ is_object(now.v)
                      /\ IF was.some /\ is_object(was.v)
                         THEN /\ DOMAIN now.v.m = DOMAIN was.v.m \cup {parts[n + 1]}
                              /\ \A k \in DOMAIN was.v.m :
                                    k # parts[n + 1] => now.v.m[k] = was.v.m[k]
                         ELSE DOMAIN now.v.m = {parts[n + 1]}

\* C10 witness: a Set through a non-object root, and one through a member
\* that held a non-object, with a path of three segments.
C10_Witness ==
    /\ op.kind = "Set" /\ Len(split(op.update.path)) = 3
    /\ LET was == lookup_in(op.before, Prefix(split(op.update.path), 1))
       IN  was.some /\ ~is_object(was.v)
    /\ lookup_in(doc, split(op.update.path)) = Some(op.update.value)

C10_WitnessRoot ==
    /\ op.kind = "Set" /\ ~is_object(op.before) /\ Len(split(op.update.path)) > 1
    /\ lookup_in(doc, split(op.update.path)) = Some(op.update.value)

\* The last two updates were Merge(p, A) then Merge(p, B) with objects A and B.
MergedTwice ==
    /\ op.kind = "Merge" /\ op.prev.kind = "Merge"
    /\ op.prev.update.path = op.update.path
    /\ is_object(op.prev.update.value) /\ is_object(op.update.value)

\* Merge(p, v) on a document whose value at p, or v itself, is not an object
\* gives the document Set(p, v) gives.
MergeIsSetOffObjects ==
    op.kind = "Merge"
    /\ (~is_object(op.update.value)
        \/ ~(ValueAt(op.before, split(op.update.path)).some
             /\ is_object(ValueAt(op.before, split(op.update.path)).v)))
      => doc = set_path(op.before, op.update.path, op.update.value)

\* C11, as stated: Merge(p, A) then Merge(p, B) leaves at p the shallow key
\* union of A and B in which B wins on shared keys, on any document; and
\* Merge is Set when the existing or the new value is not an object.
C11_MergeTwiceIsUnionOfBoth ==
    /\ MergedTwice =>
          lookup_in(doc, split(op.update.path))
            = Some(ValueObject(Union(op.prev.update.value.m, op.update.value.m)))
    /\ MergeIsSetOffObjects

\* C11, amended: Merge(p, A) then Merge(p, B) leaves at p the shallow key
\* union of the object the document held at p (if it held one), then A, then
\* B, each later one winning on shared keys and a nested object under a shared
\* key being replaced; it is the union of A and B alone when the document held
\* no object at p.  Merge is Set when the existing or the new value is not an
\* object.
C11_MergeTwiceIsUnionWithExisting ==
    /\ MergedTwice =>
          lookup_in(doc, split(op.update.path))
            = Some(ValueObject(
                Union(Union(MembersAt(op.prev.before, split(op.update.path)),
                            op.prev.update.value.m),
                      op.update.value.m)))
    /\ MergeIsSetOffObjects

\* C11 witness: two merges at a two-segment path where the document held an
\* object with a key of its own, A and B share a key with different values,
\* and B's value is the one left.
C11_Witness ==
    /\ MergedTwice /\ Len(split(op.update.path)) = 2
    /\ \E k \in DOMAIN MembersAt(op.prev.before, split(op.update.path)) :
          k \notin (DOMAIN op.prev.update.value.m) \cup (DOMAIN op.update.value.m)
    /\ \E k \in (DOMAIN op.prev.update.value.m) \cap (DOMAIN op.update.value.m) :
          /\ op.prev.update.value.m[k] # op.update.value.m[k]
          /\ lookup_in(doc, split(op.update.path) \o <<k>>) = Some(op.update.value.m[k])

\* C11 witness of the Set case: a merge of a non-object over an object.
C11_WitnessSet ==
    /\ op.kind = "Merge" /\ ~is_object(op.update.value)
    /\ MembersAt(op.before, split(op.update.path)) # MapNew
    /\ lookup_in(doc, split(op.update.path)) = Some(op.update.value)

\* C12: Delete(p) removes the final segment's key from the object the
\* segments before it lead to, through existing objects, and changes nothing
\* else; when they lead to no object the document is unchanged (nothing is
\* created or coerced); a second Delete(p) leaves the document of the first.
C12_DeleteRemovesOnlyFinalKey ==
    op.kind = "Delete" =>
        LET parts == split(op.update.path)
            n == Len(parts) - 1
            parent == ValueAt(op.before, Prefix(parts, n))
        IN  /\ IF parent.some /\ is_object(parent.v)
               THEN /\ ValueAt(doc, Prefix(parts, n))
                         = Some(ValueObject(map_remove(parent.v.m, parts[n + 1])))
                    /\ \A i \in 0..(n - 1) :
                          LET was == ValueAt(op.before, Prefix(parts, i))
                              now == ValueAt(doc, Prefix(parts, i))
                          IN  /\ now.some /\ is_object(now.v)
                              /\ DOMAIN now.v.m = DOMAIN was.v.m
                              /\ \A k \in DOMAIN was.v.m :
                                    k # parts[i + 1] => now.v.m[k] = was.v.m[k]
               ELSE doc = op.before
            /\ op.prev.kind = "Delete" /\ op.prev.update.path = op.update.path =>
                  doc = op.before

\* C12 witness: a Delete that removed a key two segments down, then the same
\* Delete again.
C12_Witness ==
    /\ op.kind = "Delete" /\ op.prev.kind = "Delete"
    /\ op.prev.update.path = op.update.path /\ Len(split(op.update.path)) = 2
    /\ op.prev.before # op.before /\ doc = op.before

\* C12 witness of the no-op: a Delete whose intermediate segment holds a
\* non-object, which is still there afterwards.
C12_WitnessNoOp ==
    /\ op.kind = "Delete" /\ Len(split(op.update.path)) = 2
    /\ ValueAt(op.before, Prefix(split(op.update.path), 1)).some
    /\ ~is_object(ValueAt(op.before, Prefix(split(op.update.path), 1)).v)
    /\ doc = op.before

----------------------------------------------------------------------------
(* Properties of interleaved invocations *)

\* The positions in the log of the writes under key k.
WritesTo(k) == { i \in 1..Len(writes) : writes[i].key = k }

\* The last write under key k.
LastWrite(k) == writes[CHOOSE i \in WritesTo(k) : \A j \in WritesTo(k) : j <= i]

\* The complete document of the invocation behind a write: its update
\* intents applied to the state document it started from.
CompleteDocument(w) ==
    apply_updates(IF is_null(w.base) THEN ValueObject(MapNew) ELSE w.base,
                  interaction_updates(w.interaction))

\* C9: however the reads and writes of the invocations interleave, the
\* document under a key is the complete document of the invocation whose
\* write under that key landed last, and a key nobody wrote holds what it
\* held at the start.
C9_LastWriteWins ==
    \A k \in (DOMAIN cstore) \cup (DOMAIN SeedStore) \cup { writes[i].key : i \in 1..Len(writes) } :
        IF WritesTo(k) = {}
        THEN k \in DOMAIN cstore /\ k \in DOMAIN SeedStore /\ cstore[k] = SeedStore[k]
        ELSE k \in DOMAIN cstore
             /\ from_slice(cstore[k]) = CompleteDocument(LastWrite(k))

\* C9 witness: a lost update.  Two invocations read the same document under
\* one key before either wrote; both wrote; the stored document is the
\* second writer's and the first writer's update is not in it.
C9_Witness ==
    /\ Len(writes) = 2 /\ writes[1].key = writes[2].key
    /\ writes[1].proc # writes[2].proc
    /\ writes[1].base = writes[2].base
    /\ writes[1].base = from_slice(SeedStore[writes[1].key])
    /\ from_slice(cstore[writes[1].key]) = CompleteDocument(writes[2])
    /\ apply_updates(from_slice(cstore[writes[1].key]),
                     interaction_updates(writes[1].interaction))
         # from_slice(cstore[writes[1].key])
    /\ \A p \in {writes[1].proc, writes[2].proc} : proc[p].pc = "done"

----------------------------------------------------------------------------
(* Properties of the render of an invocation *)

\* What a path leads to in the roots of a context, no default considered:
\* within the root its first segment names, else in the first of payload,
\* session, state and template parameters that has it, brackets read as dots.
Resolved(c, path) ==
    LET segs == split(path)
        dotted == split(normalize_path(path))
        probes == <<c.payload, c.session, c.state, c.template_params>>
        hits == {i \in 1..4 : lookup_in(probes[i], dotted).some}
    IN  CASE Head(segs) = <<"payload">> -> lookup_in(c.payload, Tail(segs))
          [] Head(segs) = <<"session">> -> lookup_in(c.session, Tail(segs))
          [] Head(segs) = <<"state">> -> lookup_in(c.state, Tail(segs))
          [] Head(segs) \in {<<"params">>, <<"template">>} ->
                lookup_in(c.template_params, Tail(segs))
          [] OTHER ->
                IF hits = {} THEN None
                ELSE lookup_in(probes[CHOOSE i \in hits : \A j \in hits : i <= j], dotted)

RECURSIVE StringLeaves(_)
StringLeaves(value) ==
    CASE value.t = "str" -> {value.s}
      [] value.t = "arr" -> UNION {StringLeaves(value.a[i]) : i \in 1..Len(value.a)}
      [] value.t = "obj" -> UNION {StringLeaves(value.m[k]) : k \in DOMAIN value.m}
      [] OTHER -> {}

\* The invocation got as far as its render: its state load did not fail and
\* its interaction, if it acts on one, was not rejected.
RenderReached ==
    /\ Done /\ last.inv.card_spec.inline_json.some
    /\ last.fault = "read" => ~is_null(last.inv.state)
    /\ Acted.some => check_interaction(drop_disabled(last.inv)).ok

\* The binding context of the invocation's render.
RenderContext == from_invocation([drop_disabled(last.inv) EXCEPT !.state = last.state])

\* The leaves of the card that contain a reference, in whole-string or
\* mid-string position, without a default, whose path none of the binding
\* roots has.
MissingLeaves ==
    { segs \in BoundLeaves :
        /\ TextOf(segs) \in StringLeaves(last.inv.card_spec.inline_json.v)
        /\ \E i \in 1..Len(segs) :
              /\ segs[i].kind = "ref" /\ ~segs[i].ref.default.some
              /\ ~Resolved(RenderContext, segs[i].ref.path).some }

C17_WitnessWhole ==
    /\ RenderReached /\ Failed /\ last.result.err = "Binding"
    /\ \E segs \in MissingLeaves : Len(segs) = 1 /\ segs[1].marker = "${"

\* No string leaf of the card holds a template, placeholder or expression
\* delimiter.
NoSyntax(card) ==
    \A leaf \in StringLeaves(card) :
        \A i \in 1..Len(leaf) : leaf[i] \notin {"{{", "}}", "@{", "${"}

\* C20: the render of an inline card without template, placeholder or
\* expression syntax in its string leaves succeeds and gives the input
\* document, every key, position and leaf unchanged; the card the invocation
\* returns is that document.
C20_PlainCardUnchanged ==
    RenderReached /\ NoSyntax(last.inv.card_spec.inline_json.v) =>
        /\ Rendered = Ok([card |-> last.inv.card_spec.inline_json.v,
                          validation_issues |-> Rendered.v.validation_issues])
        /\ Succeeded /\ last.result.v.rendered_card.some =>
              last.result.v.rendered_card.v = last.inv.card_spec.inline_json.v

\* C20 witness: the card with blanks, lone braces and non-string leaves,
\* returned as it was by an invocation that has a state document.
C20_Witness ==
    /\ Succeeded /\ last.inv.card_spec.inline_json = Some(CardRich)
    /\ ~is_null(last.state)
    /\ last.result.v.rendered_card = Some(CardRich)

----------------------------------------------------------------------------
(* Properties of the binding pass *)

\* C18: lookup of `path||default` returns the value the path resolves to
\* when that is not null, the default being ignored; the default, if one is
\* supplied, when the path is absent or resolves to null; and with no default
\* an explicit null as null and an absent path as missing.
C18_DefaultCoalesces ==
    binding.kind = "lookup" =>
        LET found == Resolved(scope, binding.ref.path)
        IN  binding.result =
                IF found.some /\ ~is_null(found.v) THEN found
                ELSE IF binding.ref.default.some THEN Some(binding.ref.default.v.value)
                ELSE found

\* C18 witness: session.user.name with the default "Guest" on a session
\* without a user gives "Guest".
C18_Witness ==
    /\ binding.kind = "lookup" /\ scope.session = ValueObject(MapNew)
    /\ binding.ref = Ref(<<"session", ".", "user", ".", "name">>,
                         Literal(<<"\"", "Guest", "\"">>, Str("Guest")))
    /\ binding.result = Some(Str("Guest"))

\* C18 witnesses: the default ignored, an explicit null kept, an absent path
\* missing, a null replaced by the default.
C18_WitnessIgnored ==
    /\ binding.kind = "lookup" /\ binding.ref.default.some
    /\ binding.ref.path = <<"session", ".", "user", ".", "name">>
    /\ binding.result = Some(Str("Ada"))

C18_WitnessNull ==
    /\ binding.kind = "lookup" /\ ~binding.ref.default.some
    /\ binding.result = Some(ValueNull)

C18_WitnessMissing ==
    /\ binding.kind = "lookup" /\ ~binding.ref.default.some
    /\ binding.ref.path = <<"items", "[", "1", "]", ".", "id">>
    /\ scope.session # SessionAda /\ binding.result = None

C18_WitnessNullDefaulted ==
    /\ binding.kind = "lookup" /\ binding.ref.default = Literal(<<"5">>, ValueNumber(5))
    /\ Resolved(scope, binding.ref.path) = Some(ValueNull)
    /\ binding.result = Some(ValueNumber(5))

\* Every placeholder of the leaf resolves in the context.
AllResolvable(segs, c) ==
    \A i \in 1..Len(segs) :
        segs[i].kind = "ref" => lookup(c, RefText(segs[i].ref, FALSE)).some

\* The literal pieces in their order, each placeholder replaced by the
\* string-coerced lookup of its path, an unclosed delimiter kept as it is.
RECURSIVE Substituted(_, _)
Substituted(segs, c) ==
    IF segs = <<>> THEN <<>>
    ELSE (CASE Head(segs).kind = "text" -> Head(segs).text
            [] Head(segs).kind = "ref" ->
                 stringify_value(lookup(c, RefText(Head(segs).ref, FALSE)).v)
            [] Head(segs).kind = "open" -> <<Head(segs).marker>>)
         \o Substituted(Tail(segs), c)

\* C19, as stated: a string leaf made of two or more placeholders, or of
\* placeholders and literal text, whose paths all resolve, renders as its
\* literal pieces in order with each placeholder replaced by the
\* string-coerced lookup of its path, and text from an unclosed delimiter on
\* kept literally; leaves that begin and end with a placeholder included.
C19_ScanReplacesEach ==
    binding.kind = "bind" /\ Len(binding.segs) >= 2 /\ AllResolvable(binding.segs, scope)
      => binding.result = Ok(ValueString(Substituted(binding.segs, scope)))

----------------------------------------------------------------------------
(* Properties of validate_card *)

\* The nodes of a value, each with the chain of keys and indices that leads
\* to it from the root.
RECURSIVE Nodes(_, _)
Nodes(value, chain) ==
    {[chain |-> chain, node |-> value]}
    \cup (CASE value.t = "obj" ->
                 UNION {Nodes(value.m[k], Append(chain, k)) : k \in DOMAIN value.m}
            [] value.t = "arr" ->
                 UNION {Nodes(value.a[i], Append(chain, usize_text(i - 1))) :
                          i \in 1..Len(value.a)}
            [] OTHER -> {})

\* The slash-joined pointer of a chain: "/" for the root, "/body/0" below it.
RECURSIVE Pointer(_)
Pointer(chain) ==
    IF chain = <<>> THEN <<>> ELSE <<"/">> \o Head(chain) \o Pointer(Tail(chain))

PointerOf(chain) == IF chain = <<>> THEN <<"/">> ELSE Pointer(chain)

Validated == report # NoReport

Issues == {report.issues[i] : i \in 1..Len(report.issues)}

\* A pointer is "/" or starts with "/" and has no empty segment.
WellFormedPath(path) ==
    \/ path = <<"/">>
    \/ /\ path # <<>>
       /\ path[1] = "/"
       /\ path[Len(path)] # "/"
       /\ \A i \in 1..(Len(path) - 1) : ~(path[i] = "/" /\ path[i + 1] = "/")

\* C21: every validation issue carries a path that is "/" or a slash-joined
\* chain of keys and indices beginning with "/"; no issue has an empty path,
\* the issues raised on the root node included.
C21_IssuePathsRooted ==
    Validated => \A issue \in Issues : WellFormedPath(issue.path)

\* The nodes of a card (a JSON object) whose type is Action.ToggleVisibility.
ToggleNodes ==
    {n \in Nodes(subject, <<>>) :
        /\ is_object(subject)
        /\ n.node.t = "obj"
        /\ as_str(get(n.node.m, <<"type">>)) = Some(<<"Action", ".", "ToggleVisibility">>)}

HasTargets(node) ==
    /\ contains_key(node.m, <<"targetElements">>)
    /\ node.m[<<"targetElements">>].t = "arr"
    /\ node.m[<<"targetElements">>].a # <<>>

\* The issues raised at a node; the root is taken under either of its names.
IssuesAt(chain) ==
    {issue \in Issues : issue.path = PointerOf(chain) \/ issue.path = Pointer(chain)}

TargetCodes == {"missing-target-elements", "empty-target-elements"}

\* C22: each Action.ToggleVisibility node whose targetElements is absent, is
\* not an array or is the empty array has at least one issue at that node;
\* one whose targetElements is a non-empty array has no issue of this rule.
C22_ToggleNeedsTargets ==
    Validated =>
        \A n \in ToggleNodes :
            IF HasTargets(n.node)
            THEN \A issue \in IssuesAt(n.chain) : issue.code \notin TargetCodes
            ELSE IssuesAt(n.chain) # {}

\* The segments of a path, a dot and a bracket both separating them.
Steps(path) ==
    LET kept == SelectSeq(path, LAMBDA tok : tok \notin {".", "[", "]"})
    IN  [i \in 1..Len(kept) |-> <<kept[i]>>]

RootNames == {<<"payload">>, <<"session">>, <<"state">>, <<"params">>, <<"template">>}

RootNamed(c, name) ==
    CASE name = <<"payload">> -> c.payload
      [] name = <<"session">> -> c.session
      [] name = <<"state">> -> c.state
      [] OTHER -> c.template_params

\* A lookup of a path whose first segment names a root, without a default.
RootedLookup ==
    /\ binding.kind = "lookup" /\ ~binding.ref.default.some
    /\ Head(Steps(binding.ref.path)) \in RootNames

\* C25: a lookup whose first segment names a root is resolved inside that
\* root only, through dot segments and bracket segments alike:
\* payload.items[0].name and payload.items.0.name give the same element.
C25_RootedLookupStrict ==
    RootedLookup =>
        binding.result = lookup_in(RootNamed(scope, Head(Steps(binding.ref.path))),
                                   Tail(Steps(binding.ref.path)))

----------------------------------------------------------------------------
(* Properties of the Asset and Catalog sources *)

\* A resolve_card that got as far as a candidate list.
Fetched == fetched # NoFetch /\ fetched.candidates.ok

Candidates == fetched.candidates.v

\* The file at the path exists, can be read and holds JSON.
Loadable(path) ==
    /\ path \in DOMAIN files.fs
    /\ path \notin files.unreadable
    /\ files.fs[path] = <<"{", "}">>

\* The positions in the candidate list of the files that load.
Loading == {i \in 1..Len(Candidates) : Loadable(Candidates[i])}

FirstLoading == CHOOSE i \in Loading : \A j \in Loading : i <= j

\* The resolver calls in the log.
Asked == {i \in 1..Len(fetched.log) : fetched.log[i].op = "resolve"}

\* C26: for Asset and Catalog sources the local candidates are tried in list
\* order and the first that exists and parses is returned without trying
\* later ones; the external resolver is called at most once and only after
\* every local candidate has failed; if it yields no loadable path the
\* resolution fails.
C26_CandidatesInOrderThenHost ==
    Fetched =>
        /\ Cardinality(Asked) <= 1
        /\ IF Loading # {}
           THEN /\ fetched.log = [i \in 1..FirstLoading |-> LocatorOp("open", Candidates[i])]
                /\ fetched.res.ok
                /\ fetched.res.v.asset_resolution.resolved = Some(Candidates[FirstLoading])
           ELSE /\ Len(fetched.log) > Len(Candidates)
                /\ SubSeq(fetched.log, 1, Len(Candidates))
                     = [i \in 1..Len(Candidates) |-> LocatorOp("open", Candidates[i])]
                /\ Asked = {Len(Candidates) + 1}
                /\ Len(fetched.log) <= Len(Candidates) + 2
                /\ fetched.res.ok <=>
                      /\ Len(fetched.log) = Len(Candidates) + 2
                      /\ Loadable(fetched.log[Len(fetched.log)].arg)
                /\ fetched.res.ok =>
                      fetched.res.v.asset_resolution
                        = AssetResolution("host", fetched.log[Len(fetched.log)].arg)

\* C26 witness: an asset whose registry path does not parse and whose
\* base-directory guess is absent is loaded from the literal name, the third
\* candidate, without a resolver call.
C26_Witness ==
    /\ Fetched /\ fetched.kind = "Asset"
    /\ Candidates = <<InCards, <<"assets", "/", "welcome">>, Welcome>>
    /\ InCards \in DOMAIN files.fs /\ ~Loadable(InCards)
    /\ fetched.res.ok /\ Len(fetched.log) = 3 /\ Asked = {}
    /\ fetched.res.v.asset_resolution = AssetResolution("wasm", Welcome)

\* C26 witnesses: a catalog card loaded from the host's path after both
\* local candidates failed; a resolution that fails after the resolver gave
\* a path that does not load; one that stops at the first of two files.
C26_WitnessHost ==
    /\ Fetched /\ fetched.kind = "Catalog" /\ Len(Candidates) = 2
    /\ fetched.res.ok /\ fetched.res.v.asset_resolution = AssetResolution("host", AtHost)
    /\ Len(fetched.log) = 4

C26_WitnessFails ==
    /\ Fetched /\ ~fetched.res.ok /\ Asked # {}
    /\ fetched.log[Len(fetched.log)] = LocatorOp("open", AtHost)

C26_WitnessFirst ==
    /\ Fetched /\ Cardinality(Loading) = 2 /\ FirstLoading = 1
    /\ fetched.res.ok /\ Len(fetched.log) = 1


====
